---- MODULE Spec2Model ----
(***************************************************************************)
(* Model of the streaming search of dailymed_client.py:                    *)
(* DailyMedAPI.search_with_filters (a Python generator), the remote calls  *)
(* it makes, the consumer that pulls values from it, and                   *)
(* print_pagination_info.                                                  *)
(*                                                                         *)
(* A candidate document is described by what the remote catalogue and the  *)
(* parser do with it (CandKinds); the generator is a program counter over  *)
(* the statements of the function body, suspended at its yield statements. *)
(***************************************************************************)
EXTENDS Integers, Sequences, FiniteSets, TLC

\* ------------------------------------------------------------------ bounds
\* longest candidate list the initial search returns in the general model
MaxCands == 3
\* length of the candidate list of the streaming-cancellation scenario
ScenarioCands == 10
\* largest page number in the metadata of the pagination model
MaxPage == 5

\* ------------------------------------------------------------- strings
\* A Python str is the sequence of its characters, each a one-character
\* string; the operators below do what the str methods of the same name do
\* on ASCII text.
UpperLetters == << "A", "B", "C", "D", "E", "F", "G", "H", "I", "J", "K", "L", "M",
                   "N", "O", "P", "Q", "R", "S", "T", "U", "V", "W", "X", "Y", "Z" >>
LowerLetters == << "a", "b", "c", "d", "e", "f", "g", "h", "i", "j", "k", "l", "m",
                   "n", "o", "p", "q", "r", "s", "t", "u", "v", "w", "x", "y", "z" >>

IsUpperChar(c) == \E i \in DOMAIN UpperLetters : UpperLetters[i] = c
IsLowerChar(c) == \E i \in DOMAIN LowerLetters : LowerLetters[i] = c
IsLetter(c) == IsUpperChar(c) \/ IsLowerChar(c)
IsSpace(c) == c \in {" ", "\n", "\t"}

LowerChar(c) ==
    IF IsUpperChar(c)
    THEN LowerLetters[CHOOSE i \in DOMAIN UpperLetters : UpperLetters[i] = c]
    ELSE c

UpperChar(c) ==
    IF IsLowerChar(c)
    THEN UpperLetters[CHOOSE i \in DOMAIN LowerLetters : LowerLetters[i] = c]
    ELSE c

\* str.lower()
RECURSIVE Lower(_)
Lower(s) == IF s = << >> THEN << >> ELSE << LowerChar(Head(s)) >> \o Lower(Tail(s))

\* str.upper()
RECURSIVE Upper(_)
Upper(s) == IF s = << >> THEN << >> ELSE << UpperChar(Head(s)) >> \o Upper(Tail(s))

\* "k in f" on two str values (the empty string is in every string)
Contains(f, k) ==
    \E i \in 0..(Len(f) - Len(k)) : SubSeq(f, i + 1, i + Len(k)) = k

\* str.strip() with no argument: leading and trailing whitespace removed
RECURSIVE LStrip(_)
LStrip(s) == IF s # << >> /\ IsSpace(Head(s)) THEN LStrip(Tail(s)) ELSE s

RECURSIVE RStrip(_)
RStrip(s) ==
    IF s # << >> /\ IsSpace(s[Len(s)]) THEN RStrip(SubSeq(s, 1, Len(s) - 1)) ELSE s

Strip(s) == LStrip(RStrip(s))

\* " ".join(s.split()): every run of whitespace becomes one space, none is
\* left at either end
RECURSIVE CollapseTail(_)
CollapseTail(s) ==
    IF s = << >> THEN << >>
    ELSE IF IsSpace(Head(s))
         THEN (IF LStrip(s) = << >> THEN << >> ELSE << " " >> \o CollapseTail(LStrip(s)))
         ELSE << Head(s) >> \o CollapseTail(Tail(s))

CollapseSpaces(s) == CollapseTail(LStrip(s))

\* sep.join(parts)
RECURSIVE Join(_, _)
Join(sep, parts) ==
    IF parts = << >> THEN << >>
    ELSE IF Len(parts) = 1 THEN parts[1]
    ELSE parts[1] \o sep \o Join(sep, Tail(parts))

\* the elements of a sequence
Range(s) == {s[i] : i \in DOMAIN s}

\* ---------------------------------------------------- the remote catalogue
\* What one entry of the "data" list of the search response stands for:
\*   NoSetId    the entry has no "setid"
\*   FetchError GET spls/<setid>.xml raises (HTTP error, timeout, ...)
\*   NonText    the request returns something that is not a str
\*   BadXml     the document does not parse (_parse_spl_xml returns None)
\*   Rejected   the document parses and fails one of the filter clauses
\*   Match      the document parses and passes every filter clause
CandKinds == {"NoSetId", "FetchError", "NonText", "BadXml", "Rejected", "Match"}

\* item.get("setid") is truthy
HasSetId(c) == c # "NoSetId"

\* outcome of self._make_request(f"spls/{set_id}.xml")
MakeRequest(c) ==
    IF c = "FetchError" THEN "raise"
    ELSE IF c = "NonText" THEN "nonstr"
    ELSE "str"

\* self._parse_spl_xml(xml_string) returns a dictionary (TRUE) or None (FALSE)
ParseSplXml(c) == c \in {"Rejected", "Match"}

\* conjunction of the filter clauses on the parsed label
FilterPass(c) == c = "Match"

\* ------------------------------------------------------------- metadata
\* One value of the metadata dictionary: the key is absent, holds an
\* integer, or holds something int() raises on.
AbsentVal == [kind |-> "absent", n |-> 0]
IntVal(n) == [kind |-> "int", n |-> n]
BadVal == [kind |-> "bad", n |-> 0]

\* initial_results.get("metadata"): None, an empty dictionary, or a
\* non-empty dictionary in which either page key may be missing
NoMeta == [kind |-> "none", current_page |-> AbsentVal, total_pages |-> AbsentVal]
EmptyMeta == [kind |-> "empty", current_page |-> AbsentVal, total_pages |-> AbsentVal]
MetaDict(cp, tp) == [kind |-> "dict", current_page |-> cp, total_pages |-> tp]

\* Python truth value of the metadata object ("if metadata:")
Truthy(m) == m.kind = "dict"

\* metadata.get(key, default)
DictGet(v, default) == IF v.kind = "absent" THEN IntVal(default) ELSE v

\* mutant: the page comparison is <= instead of <
PrintPaginationInfo_Le(m) ==
    LET current_page == DictGet(m.current_page, 1)
        total_pages == DictGet(m.total_pages, 0)
    IN  IF current_page.kind = "bad" \/ total_pages.kind = "bad" THEN << >>
        ELSE IF current_page.n <= total_pages.n THEN << current_page.n + 1 >>
        ELSE << >>

\* print_pagination_info: the advisory it prints, as a sequence holding the
\* next page number, or the empty sequence when it prints no advisory.
\* int() raising is caught by the function's own handler (warning only).
PrintPaginationInfo(m) ==
    LET current_page == DictGet(m.current_page, 1)
        total_pages == DictGet(m.total_pages, 0)
    IN  IF current_page.kind = "bad" \/ total_pages.kind = "bad" THEN << >>
        ELSE IF current_page.n < total_pages.n THEN << current_page.n + 1 >>
        ELSE << >>

\* ------------------------------------------------ what the catalogue holds
\* The response of the initial search, fixed for one streaming search:
\*   search   "ok", "transport" (requests RequestException) or "decode"
\*            (json.JSONDecodeError, which the generator does not catch)
\*   hasData  whether the response carries a "data" key
\*   data     the candidate list
\*   metadata the "metadata" entry
Response(s, h, d, m) == [search |-> s, hasData |-> h, data |-> d, metadata |-> m]

SeqsUpTo(S, n) == UNION {[1..k -> S] : k \in 0..n}

OkResponses(lists, metas) ==
    {Response("ok", TRUE, d, m) : d \in lists, m \in metas}
    \cup {Response("ok", FALSE, << >>, m) : m \in metas}

FailedResponses ==
    {Response("transport", FALSE, << >>, NoMeta),
     Response("decode", FALSE, << >>, NoMeta)}

\* candidate lists of the streaming-cancellation scenario: ScenarioCands
\* candidates, candidate #3 fails to fetch, the others fetch and parse
ScenarioLists ==
    {d \in [1..ScenarioCands -> {"FetchError", "Rejected", "Match"}] :
        \A i \in 1..ScenarioCands : (d[i] = "FetchError") <=> (i = 3)}

SmallMetas == {NoMeta, MetaDict(IntVal(1), IntVal(1)), MetaDict(IntVal(1), IntVal(2))}

PageVals == {AbsentVal, BadVal} \cup {IntVal(n) : n \in 0..MaxPage}

AllMetas == {NoMeta, EmptyMeta} \cup {MetaDict(cp, tp) : cp \in PageVals, tp \in PageVals}

\* ------------------------------------------------------------------ state
VARIABLES
    world,      \* the response the initial search will produce
    pc,         \* position of the generator in search_with_filters
    cons,       \* the consumer: "idle", "waiting", "stopped", "exhausted", "raised"
    idx,        \* 1-based position of the for loop in data_results
    data,       \* data_results
    metadata,   \* local variable metadata
    count,      \* local variable count
    out,        \* values handed to the consumer, in order
    requests,   \* number of values the consumer has asked for
    log,        \* remote calls and processing steps performed, in order
    diag,       \* diagnostics written to stderr / stdout, in order
    reported,   \* the count printed by "Advanced search complete", if any
    advisory,   \* the next-page advisory printed, if any
    call,       \* a direct call of the filter or the parser: its arguments
    ret         \* what that call returned

vars == << world, pc, cons, idx, data, metadata, count, out, requests, log,
           diag, reported, advisory, call, ret >>

\* no direct call of the filter or the parser is being looked at
NoCall == [fn |-> "none"]
NoReturn == [done |-> FALSE]

\* values a generator hands over: a parsed label (of candidate i) or None
Label(i) == [label |-> TRUE, idx |-> i]
NoneValue == [label |-> FALSE, idx |-> 0]

Event(op, i) == [op |-> op, i |-> i]

InitWith(responses) ==
    /\ world \in responses
    /\ pc = "created"
    /\ cons = "idle"
    /\ idx = 0
    /\ data = << >>
    /\ metadata = NoMeta
    /\ count = 0
    /\ out = << >>
    /\ requests = 0
    /\ log = << >>
    /\ diag = << >>
    /\ reported = << >>
    /\ advisory = << >>
    /\ call = NoCall
    /\ ret = NoReturn

Init ==
    InitWith(OkResponses(SeqsUpTo(CandKinds, MaxCands) \cup ScenarioLists, SmallMetas)
             \cup FailedResponses)

InitPage ==
    InitWith(OkResponses(SeqsUpTo(CandKinds, 1), AllMetas) \cup FailedResponses)

\* ------------------------------------------------------------- consumer
\* The generator body runs only between a next() call and the following
\* yield, return or raise.
\* mutant: the body runs to the end whether or not a value is asked for
Running_Eager == TRUE

Running == cons = "waiting"

\* next(): the consumer asks for a value; the generator resumes where it
\* was suspended (function entry, after "yield parsed_data", after "yield")
Request ==
    /\ cons = "idle"
    /\ pc \in {"created", "yielded", "yielded_none"}
    /\ cons' = "waiting"
    /\ requests' = requests + 1
    /\ UNCHANGED << call, ret, world, pc, idx, data, metadata, count, out, log, diag,
                    reported, advisory >>

\* the consumer leaves its loop (break, or it never iterates)
Stop ==
    /\ cons = "idle"
    /\ cons' = "stopped"
    /\ UNCHANGED << call, ret, world, pc, idx, data, metadata, count, out, requests, log,
                    diag, reported, advisory >>

\* ------------------------------------------------------------ generator
\* "yield v": hand v to the consumer and suspend at position at
Yield(v, at) ==
    /\ out' = Append(out, v)
    /\ pc' = at
    /\ cons' = "idle"

\* mutant: the loop position is not advanced, the same item is taken again
Continue_NoAdvance ==
    /\ idx' = idx
    /\ pc' = "loop"
    /\ cons' = cons
    /\ out' = out

\* "continue": the for loop moves to the next item
Continue ==
    /\ idx' = idx + 1
    /\ pc' = "loop"
    /\ cons' = cons
    /\ out' = out

\* 1. Initial search, and the "no initial results" check
Search ==
    /\ Running
    /\ pc = "created"
    /\ log' = Append(log, Event("search", 0))
    /\ CASE world.search = "transport" ->
              /\ diag' = Append(diag, Event("initial_search_failed", 0))
              /\ Yield(NoneValue, "yielded_none")
              /\ UNCHANGED << idx, data, metadata, count >>
         [] world.search = "decode" ->
              /\ pc' = "done"
              /\ cons' = "raised"
              /\ UNCHANGED << idx, data, metadata, count, out, diag >>
         [] world.search = "ok" ->
              /\ metadata' = world.metadata
              /\ data' = IF world.hasData THEN world.data ELSE << >>
              /\ IF data' = << >>
                 THEN /\ diag' = Append(diag, Event("no_initial_results", 0))
                      /\ Yield(NoneValue, "yielded_none")
                      /\ UNCHANGED << idx, count >>
                 ELSE /\ count' = 0
                      /\ idx' = 1
                      /\ pc' = "loop"
                      /\ UNCHANGED << cons, out, diag >>
    /\ UNCHANGED << call, ret, world, requests, reported, advisory >>

\* mutant: the loop ends at a candidate without identifier (break for continue)
LoopNext_Break ==
    /\ Running
    /\ pc \in {"loop", "yielded"}
    /\ LET i == IF pc = "yielded" THEN idx + 1 ELSE idx
       IN  IF i > Len(data)
           THEN pc' = "complete" /\ idx' = i
           ELSE IF ~HasSetId(data[i])
                THEN pc' = "complete" /\ idx' = Len(data) + 1
                ELSE pc' = "fetch" /\ idx' = i
    /\ UNCHANGED << call, ret, world, cons, data, metadata, count, out, requests, log,
                    diag, reported, advisory >>

\* head of "for i, item in enumerate(data_results)" and the setid check;
\* resumed after "yield parsed_data", the loop takes the next item
LoopNext ==
    /\ Running
    /\ pc \in {"loop", "yielded"}
    /\ LET i == IF pc = "yielded" THEN idx + 1 ELSE idx
       IN  IF i > Len(data)
           THEN pc' = "complete" /\ idx' = i
           ELSE IF ~HasSetId(data[i])
                THEN pc' = "loop" /\ idx' = i + 1
                ELSE pc' = "fetch" /\ idx' = i
    /\ UNCHANGED << call, ret, world, cons, data, metadata, count, out, requests, log,
                    diag, reported, advisory >>

\* mutant: a failed request is tried a second time before the candidate is skipped
FetchDocument_Retry ==
    /\ Running
    /\ pc = "fetch"
    /\ log' = Append(log, Event("fetch", idx))
    /\ CASE MakeRequest(data[idx]) = "raise" ->
              IF log[Len(log)] = Event("fetch", idx)
              THEN /\ diag' = Append(diag, Event("process_error", idx))
                   /\ Continue
              ELSE UNCHANGED << pc, idx, cons, out, diag >>
         [] MakeRequest(data[idx]) = "nonstr" ->
              /\ diag' = diag
              /\ Continue
         [] MakeRequest(data[idx]) = "str" ->
              /\ pc' = "parse"
              /\ UNCHANGED << idx, cons, out, diag >>
    /\ UNCHANGED << call, ret, world, data, metadata, count, requests, reported, advisory >>

\* mutant: no handler around the request, a transport error leaves the generator
FetchDocument_NoCatch ==
    /\ Running
    /\ pc = "fetch"
    /\ log' = Append(log, Event("fetch", idx))
    /\ CASE MakeRequest(data[idx]) = "raise" ->
              /\ pc' = "done"
              /\ cons' = "raised"
              /\ UNCHANGED << idx, out, diag >>
         [] MakeRequest(data[idx]) = "nonstr" ->
              /\ diag' = diag
              /\ Continue
         [] MakeRequest(data[idx]) = "str" ->
              /\ pc' = "parse"
              /\ UNCHANGED << idx, cons, out, diag >>
    /\ UNCHANGED << call, ret, world, data, metadata, count, requests, reported, advisory >>

\* xml_string = self._make_request(...), inside the try block
FetchDocument ==
    /\ Running
    /\ pc = "fetch"
    /\ log' = Append(log, Event("fetch", idx))
    /\ CASE MakeRequest(data[idx]) = "raise" ->
              /\ diag' = Append(diag, Event("process_error", idx))
              /\ Continue
         [] MakeRequest(data[idx]) = "nonstr" ->
              /\ diag' = diag
              /\ Continue
         [] MakeRequest(data[idx]) = "str" ->
              /\ pc' = "parse"
              /\ UNCHANGED << idx, cons, out, diag >>
    /\ UNCHANGED << call, ret, world, data, metadata, count, requests, reported, advisory >>

\* parsed_data = self._parse_spl_xml(xml_string)
ParseDocument ==
    /\ Running
    /\ pc = "parse"
    /\ log' = Append(log, Event("parse", idx))
    /\ IF ParseSplXml(data[idx])
       THEN /\ pc' = "filter"
            /\ UNCHANGED << idx, cons, out, diag >>
       ELSE /\ diag' = Append(diag, Event("parse_failed", idx))
            /\ Continue
    /\ UNCHANGED << call, ret, world, data, metadata, count, requests, reported, advisory >>

\* mutant: count is incremented before the filter clauses are evaluated
FilterAndYield_CountEarly ==
    /\ Running
    /\ pc = "filter"
    /\ log' = Append(log, Event("eval", idx))
    /\ count' = count + 1
    /\ IF FilterPass(data[idx])
       THEN /\ Yield(Label(idx), "yielded")
            /\ idx' = idx
       ELSE Continue
    /\ UNCHANGED << call, ret, world, data, metadata, requests, diag, reported, advisory >>

\* mutant: the label is yielded whatever the filter clauses say
FilterAndYield_NoFilter ==
    /\ Running
    /\ pc = "filter"
    /\ log' = Append(log, Event("eval", idx))
    /\ count' = count + 1
    /\ Yield(Label(idx), "yielded")
    /\ idx' = idx
    /\ UNCHANGED << call, ret, world, data, metadata, requests, diag, reported, advisory >>

\* the filter clauses, count += 1 and "yield parsed_data"
FilterAndYield ==
    /\ Running
    /\ pc = "filter"
    /\ log' = Append(log, Event("eval", idx))
    /\ IF FilterPass(data[idx])
       THEN /\ count' = count + 1
            /\ Yield(Label(idx), "yielded")
            /\ idx' = idx
       ELSE /\ count' = count
            /\ Continue
    /\ UNCHANGED << call, ret, world, data, metadata, requests, diag, reported, advisory >>

\* print("Advanced search complete. Found {count} matching items.")
Complete ==
    /\ Running
    /\ pc = "complete"
    /\ reported' = << count >>
    /\ pc' = "pagination"
    /\ UNCHANGED << call, ret, world, cons, idx, data, metadata, count, out, requests, log,
                    diag, advisory >>

\* if metadata: print_pagination_info(args, metadata)
Pagination ==
    /\ Running
    /\ pc = "pagination"
    /\ advisory' = IF Truthy(metadata) THEN PrintPaginationInfo(metadata) ELSE << >>
    /\ pc' = "return"
    /\ UNCHANGED << call, ret, world, cons, idx, data, metadata, count, out, requests, log,
                    diag, reported >>

\* the generator function returns: the consumer's loop ends (StopIteration)
Return ==
    /\ Running
    /\ pc \in {"return", "yielded_none"}
    /\ pc' = "done"
    /\ cons' = "exhausted"
    /\ UNCHANGED << call, ret, world, idx, data, metadata, count, out, requests, log,
                    diag, reported, advisory >>

GenStep ==
    \/ Search
    \/ LoopNext
    \/ FetchDocument
    \/ ParseDocument
    \/ FilterAndYield
    \/ Complete
    \/ Pagination
    \/ Return

Next ==
    \/ Request
    \/ Stop
    \/ Search
    \/ LoopNext
    \/ FetchDocument
    \/ ParseDocument
    \/ FilterAndYield
    \/ Complete
    \/ Pagination
    \/ Return

Spec == Init /\ [][Next]_vars

\* the pagination model: short candidate lists, every shape of metadata
SpecPage == InitPage /\ [][Next]_vars

\* a consumer that keeps asking, and remote calls that return or fail
FairSpec == Init /\ [][Next]_vars /\ WF_vars(Request) /\ WF_vars(GenStep)

TypeOK ==
    /\ pc \in {"created", "loop", "fetch", "parse", "filter", "yielded",
               "yielded_none", "complete", "pagination", "return", "done"}
    /\ cons \in {"idle", "waiting", "stopped", "exhausted", "raised"}
    /\ idx \in 0..(Len(data) + 1)
    /\ count \in 0..Len(data)
    /\ requests \in 0..(Len(data) + 2)

\* =============================================== the filter, called directly
\* ------------------------------------------------------------------ bounds
\* most ingredients in one list of a label given to the filter
MaxIngredients == 2
\* most keywords in one criterion of the single-criterion family
MaxKeywords == 2

\* ------------------------------------------------------- labels and args
NA == << "N", "/", "A" >>

\* an entry of parsed_data["active"]
Ingredient(name, strength) == [name |-> name, strength |-> strength]

\* parsed_data, as far as the filter and the categorization read it
ParsedData(route, form, active, inactive) ==
    [route_code_display |-> route, form_code_display |-> form,
     active |-> active, inactive |-> inactive]

\* args.route: None or a str
NoRoute == [none |-> TRUE, s |-> << >>]
Route(s) == [none |-> FALSE, s |-> s]

\* the args namespace read at lines 517-523; a list criterion that is None
\* is the empty list here (both are false in "if form")
Args(route, form, only_active, include_active, exclude_active, include_inactive, exclude_inactive) ==
    [route |-> route, form |-> form, only_active |-> only_active,
     include_active |-> include_active, exclude_active |-> exclude_active,
     include_inactive |-> include_inactive, exclude_inactive |-> exclude_inactive]

NoArgs == Args(NoRoute, << >>, << >>, << >>, << >>, << >>, << >>)

\* mutant: the keywords are compared as typed
LowerSet_AsTyped(keywords) == Range(keywords)

\* {k.lower() for k in keywords} if keywords else set()
LowerSet(keywords) == {Lower(k) : k \in Range(keywords)}

\* mutant: one keyword found is enough
IncludeRejects_AnyKeyword(filts, names_lower) ==
    /\ filts # {}
    /\ ~(\E filt \in filts : \E name \in names_lower : Contains(name, filt))

\* "Check Include Active" / "Check Include Inactive": the condition of the
\* continue statement
IncludeRejects(filts, names_lower) ==
    /\ filts # {}
    /\ ~(\A filt \in filts : \E name \in names_lower : Contains(name, filt))

\* mutant: rejects only when every excluded keyword is found
ExcludeRejects_AllKeywords(filts, names_lower) ==
    /\ filts # {}
    /\ \A filt \in filts : \E name \in names_lower : Contains(name, filt)

\* "Check Exclude Active" / "Check Exclude Inactive"
ExcludeRejects(filts, names_lower) ==
    /\ filts # {}
    /\ \E filt \in filts : \E name \in names_lower : Contains(name, filt)

\* mutant: one approved active ingredient is enough
OnlyRejects_AnyIngredient(filts, names_lower) ==
    /\ filts # {}
    /\ ~(\E ing \in names_lower : \E filt \in filts : Contains(ing, filt))

\* "Check Only Active"
OnlyRejects(filts, names_lower) ==
    /\ filts # {}
    /\ ~(\A ing \in names_lower : \E filt \in filts : Contains(ing, filt))

\* the --- Filtering Logic --- block: TRUE when the label reaches the
\* yield, FALSE when one of the "continue" statements is taken
PassesFilters(parsed_data, args) ==
    LET route_given == ~args.route.none /\ args.route.s # << >>
        route_filter == Lower(args.route.s)
        form_filter == LowerSet(args.form)
        only_act_filts == LowerSet(args.only_active)
        inc_act == LowerSet(args.include_active)
        exc_act == LowerSet(args.exclude_active)
        inc_inact == LowerSet(args.include_inactive)
        exc_inact == LowerSet(args.exclude_inactive)
        parsed_route == Lower(parsed_data.route_code_display)
        parsed_form == Lower(parsed_data.form_code_display)
        active_list_lower == {Lower(ing.name) : ing \in Range(parsed_data.active)}
        inactive_list_lower == {Lower(ing) : ing \in Range(parsed_data.inactive)}
    IN  IF route_given /\ ~Contains(parsed_route, route_filter) THEN FALSE
        ELSE IF form_filter # {}
                /\ ~(\E filt \in form_filter : Contains(parsed_form, filt)) THEN FALSE
        ELSE IF IncludeRejects(inc_act, active_list_lower) THEN FALSE
        ELSE IF ExcludeRejects(exc_act, active_list_lower) THEN FALSE
        ELSE IF IncludeRejects(inc_inact, inactive_list_lower) THEN FALSE
        ELSE IF ExcludeRejects(exc_inact, inactive_list_lower) THEN FALSE
        ELSE IF OnlyRejects(only_act_filts, active_list_lower) THEN FALSE
        ELSE TRUE

\* mutant: only "keyword in ingredient" counts, as in the filter
ContainsExcipient_OneWay(parsed_data, excipients) ==
    LET excipients_lower == LowerSet(excipients)
        inactive_lower == {Lower(ing) : ing \in Range(parsed_data.inactive)}
    IN  /\ excipients_lower # {}
        /\ \E exc_lower \in excipients_lower : \E ing_lower \in inactive_lower :
              Contains(ing_lower, exc_lower)

\* search_with_excipients: contains_excipient for one result ("with" bucket);
\* with no excipients every result goes to the "free" bucket
ContainsExcipient(parsed_data, excipients) ==
    LET excipients_lower == LowerSet(excipients)
        inactive_lower == {Lower(ing) : ing \in Range(parsed_data.inactive)}
    IN  /\ excipients_lower # {}
        /\ \E exc_lower \in excipients_lower : \E ing_lower \in inactive_lower :
              Contains(ing_lower, exc_lower) \/ Contains(exc_lower, ing_lower)

\* ------------------------------------------------------------ the inputs
\* display names as the parser writes them, and keywords as a user types them
NameA == << "A" >>
NameAb == << "A", "b" >>
NameB == << "B" >>
KwA == << "a" >>
KwB == << "B" >>
KwAb == << "a", "b" >>

IngredientNames == {NameA, NameAb, NameB}
Keywords == {KwA, KwB, KwAb}
DisplayTexts == {NA, NameB}

\* inactive lists are sorted and free of duplicates (line 465)
SortedNameLists ==
    {<< >>, << NameA >>, << NameAb >>, << NameB >>,
     << NameA, NameAb >>, << NameA, NameB >>, << NameAb, NameB >>}

NoStrength == << "S", "t", "r", "e", "n", "g", "t", "h", " ", "n", "o", "t", " ", "s", "p", "e", "c", "i", "f", "i", "e", "d" >>

FilterLabels ==
    {ParsedData(r, f, a, i) :
        r \in DisplayTexts, f \in DisplayTexts,
        a \in {[k \in DOMAIN names |-> Ingredient(names[k], NoStrength)] :
                  names \in SeqsUpTo(IngredientNames, MaxIngredients)},
        i \in {l \in SortedNameLists : Len(l) <= MaxIngredients}}

\* every combination of absent / present criteria
OnOff(kw) == {<< >>, << kw >>}
AllClauseArgs ==
    {Args(r, f, o, ia, ea, ii, ei) :
        r \in {NoRoute, Route(KwA)}, f \in OnOff(KwB), o \in OnOff(KwB),
        ia \in OnOff(KwB), ea \in OnOff(KwAb), ii \in OnOff(KwB), ei \in OnOff(KwAb)}

\* one criterion given, with up to MaxKeywords keywords
KeywordLists == SeqsUpTo(Keywords, MaxKeywords)
OneClauseArgs ==
    {Args(r, << >>, << >>, << >>, << >>, << >>, << >>) :
        r \in {Route(k) : k \in Keywords \cup {<< >>}}}
    \cup {Args(NoRoute, k, << >>, << >>, << >>, << >>, << >>) : k \in KeywordLists}
    \cup {Args(NoRoute, << >>, k, << >>, << >>, << >>, << >>) : k \in KeywordLists}
    \cup {Args(NoRoute, << >>, << >>, k, << >>, << >>, << >>) : k \in KeywordLists}
    \cup {Args(NoRoute, << >>, << >>, << >>, k, << >>, << >>) : k \in KeywordLists}
    \cup {Args(NoRoute, << >>, << >>, << >>, << >>, k, << >>) : k \in KeywordLists}
    \cup {Args(NoRoute, << >>, << >>, << >>, << >>, << >>, k) : k \in KeywordLists}

\* an include and an exclude criterion on the same list
IncludeExcludeArgs ==
    {Args(NoRoute, << >>, << >>, << i >>, << e >>, << >>, << >>) : i \in Keywords, e \in Keywords}
    \cup {Args(NoRoute, << >>, << >>, << >>, << >>, << i >>, << e >>) : i \in Keywords, e \in Keywords}

\* the worked examples of the specification
Aspirin == << "A", "s", "p", "i", "r", "i", "n" >>
Caffeine == << "C", "a", "f", "f", "e", "i", "n", "e" >>
Acetaminophen == << "A", "c", "e", "t", "a", "m", "i", "n", "o", "p", "h", "e", "n" >>
Diphenhydramine == << "D", "i", "p", "h", "e", "n", "h", "y", "d", "r", "a", "m", "i", "n", "e" >>
Lactose == << "L", "a", "c", "t", "o", "s", "e" >>
KwAspirin == << "a", "s", "p", "i", "r", "i", "n" >>
KwCaffeine == << "c", "a", "f", "f", "e", "i", "n", "e" >>
KwAcetaminophen == << "a", "c", "e", "t", "a", "m", "i", "n", "o", "p", "h", "e", "n" >>
KwLactoseMonohydrate == << "l", "a", "c", "t", "o", "s", "e", " ", "m", "o", "n", "o", "h", "y", "d", "r", "a", "t", "e" >>

ActiveList(names) == [k \in DOMAIN names |-> Ingredient(names[k], NoStrength)]

FilterCall(label, args, excipients) ==
    [fn |-> "filter", label |-> label, args |-> args, excipients |-> excipients]

ExampleCalls ==
    {FilterCall(ParsedData(NA, NA, ActiveList(<< Aspirin, Caffeine >>), << >>),
                Args(NoRoute, << >>, << >>, << KwAspirin >>, << KwCaffeine >>, << >>, << >>),
                << >>),
     FilterCall(ParsedData(NA, NA, ActiveList(<< Acetaminophen >>), << >>),
                Args(NoRoute, << >>, << KwAcetaminophen >>, << >>, << >>, << >>, << >>),
                << >>),
     FilterCall(ParsedData(NA, NA, ActiveList(<< Acetaminophen, Diphenhydramine >>), << >>),
                Args(NoRoute, << >>, << KwAcetaminophen >>, << >>, << >>, << >>, << >>),
                << >>),
     FilterCall(ParsedData(NA, NA, ActiveList(<< Aspirin >>), << Lactose >>),
                Args(NoRoute, << >>, << >>, << >>, << >>, << >>, << KwLactoseMonohydrate >>),
                << KwLactoseMonohydrate >>)}

\* criteria of the calls whose result is also put into a bucket by
\* search_with_excipients
BucketArgs ==
    {NoArgs} \cup {Args(NoRoute, << >>, << >>, << >>, << >>, << >>, << k >>) : k \in Keywords}

ClauseArgs == AllClauseArgs \cup OneClauseArgs \cup IncludeExcludeArgs

\* ------------------------------------------------------------ the steps
InitFilter ==
    /\ world = Response("ok", FALSE, << >>, NoMeta)
    /\ pc = "created"
    /\ cons = "stopped"
    /\ idx = 0
    /\ data = << >>
    /\ metadata = NoMeta
    /\ count = 0
    /\ out = << >>
    /\ requests = 0
    /\ log = << >>
    /\ diag = << >>
    /\ reported = << >>
    /\ advisory = << >>
    /\ \/ \E l \in FilterLabels, a \in ClauseArgs : call = FilterCall(l, a, << >>)
       \/ \E l \in FilterLabels, a \in BucketArgs, e \in Keywords :
             call = FilterCall(l, a, << e >>)
       \/ call \in ExampleCalls
    /\ ret = NoReturn

\* the filter clauses are evaluated on one parsed label
ApplyFilter ==
    /\ call.fn = "filter"
    /\ ~ret.done
    /\ ret' = [done |-> TRUE,
               pass |-> PassesFilters(call.label, call.args),
               bucket |-> "none"]
    /\ UNCHANGED << call, world, pc, cons, idx, data, metadata, count, out,
                    requests, log, diag, reported, advisory >>

\* search_with_excipients puts a yielded label into one of its two buckets
Categorize ==
    /\ call.fn = "filter"
    /\ ret.done
    /\ ret.pass
    /\ ret.bucket = "none"
    /\ ret' = [ret EXCEPT !.bucket =
                  IF ContainsExcipient(call.label, call.excipients)
                  THEN "with" ELSE "free"]
    /\ UNCHANGED << call, world, pc, cons, idx, data, metadata, count, out,
                    requests, log, diag, reported, advisory >>

NextFilter ==
    \/ ApplyFilter
    \/ Categorize

SpecFilter == InitFilter /\ [][NextFilter]_vars

\* ============================================================ properties
\* positions of the events of kind op in the log
EventsOf(op) == {k \in DOMAIN log : log[k].op = op}

\* candidate i was fetched / parsed / evaluated
Did(op, i) == \E k \in DOMAIN log : log[k] = Event(op, i)

\* the labels among the values handed over
LabelsIn(s) == SelectSeq(s, LAMBDA v : v.label)

\* a candidate whose fetch succeeds, whose markup parses and whose label
\* satisfies the filter predicate
FetchSucceeds(c) == HasSetId(c) /\ MakeRequest(c) = "str"
Qualifies(c) == FetchSucceeds(c) /\ ParseSplXml(c) /\ FilterPass(c)

\* the labels of the qualifying candidates among the first k, in order
RECURSIVE ExpectedUpTo(_, _)
ExpectedUpTo(d, k) ==
    IF k = 0 THEN << >>
    ELSE ExpectedUpTo(d, k - 1) \o (IF Qualifies(d[k]) THEN << Label(k) >> ELSE << >>)

NonEmptySearch == world.search = "ok" /\ world.hasData /\ world.data # << >>

\* the for loop has run past the last candidate
Exhausted == pc = "complete" \/ reported # << >>

\* C1: for a non-empty candidate list the values produced are exactly the
\* labels of the qualifying candidates, in candidate order: after the loop has
\* dealt with the first k candidates the output is the qualifying ones among
\* them, and at exhaustion it is the qualifying ones among all.
C1_OutputIsMatchingSubsequence ==
    NonEmptySearch =>
        /\ (pc = "created" => out = << >>)
        /\ (pc = "yielded" => out = ExpectedUpTo(world.data, idx))
        /\ (pc \in {"loop", "fetch", "parse", "filter"}
              => out = ExpectedUpTo(world.data, idx - 1))
        /\ (pc \in {"complete", "pagination", "return", "done"}
              => out = ExpectedUpTo(world.data, Len(world.data)))

\* a run to exhaustion that yields candidates 1 and 3 and skips candidate 2
C1_Witness ==
    /\ pc = "done"
    /\ cons = "exhausted"
    /\ Len(world.data) = 3
    /\ ~Qualifies(world.data[2])
    /\ out = << Label(1), Label(3) >>

\* C2: a per-candidate failure never ends the stream: when the generator has
\* finished over a non-empty list, every candidate that has an identifier was
\* fetched, every fetched text was parsed, every parsed label was evaluated,
\* the consumer saw a normal end, and no failing candidate is in the output.
C2_FailureIsolated ==
    (NonEmptySearch /\ pc = "done") =>
        /\ cons = "exhausted"
        /\ \A i \in 1..Len(world.data) :
             LET c == world.data[i] IN
             /\ HasSetId(c) => Did("fetch", i)
             /\ FetchSucceeds(c) => Did("parse", i)
             /\ (FetchSucceeds(c) /\ ParseSplXml(c)) => Did("eval", i)
             /\ (~FetchSucceeds(c) \/ ~ParseSplXml(c))
                   => \A k \in DOMAIN out : out[k] # Label(i)

\* candidates 1 and 2 fail (fetch error, unparseable markup) and candidate 3
\* is still fetched, evaluated and yielded
C2_Witness ==
    /\ pc = "done"
    /\ Len(world.data) = 3
    /\ world.data[1] = "FetchError"
    /\ world.data[2] \in {"BadXml", "NonText"}
    /\ Did("eval", 3)
    /\ out = << Label(3) >>

\* C3: when the initial search fails with a transport error the consumer
\* receives zero values, no document is fetched, and the generator ends
\* normally.
C3_SearchFailureYieldsNothing ==
    world.search = "transport" =>
        /\ out = << >>
        /\ EventsOf("fetch") = {}
        /\ cons # "raised"

\* C4: when the initial search returns an empty or missing candidate list the
\* generator goes from searching to done without iterating: the consumer
\* receives zero values and no document is fetched.
C4_NoCandidatesYieldsNothing ==
    (world.search = "ok" /\ (~world.hasData \/ world.data = << >>)) =>
        /\ out = << >>
        /\ EventsOf("fetch") = {}
        /\ pc \notin {"loop", "fetch", "parse", "filter", "yielded"}

\* C5: the generator is pull-driven: nothing is done before the first request;
\* a remote call or a parse happens only while a request of the consumer is
\* outstanding, that request being for a value beyond every label yielded so
\* far; once the consumer has stopped, it stays stopped and nothing more is
\* fetched or parsed.
C5_PullDriven ==
    /\ [](requests = 0 => log = << >>)
    /\ [][ /\ (log' # log => (cons = "waiting" /\ requests = Len(out) + 1))
           /\ (cons = "stopped" => (cons' = "stopped" /\ log' = log /\ out' = out)) ]_vars

\* the consumer stopped after the first label while candidates remained, and
\* candidate 2 was never fetched
C5_Witness ==
    /\ cons = "stopped"
    /\ out = << Label(1) >>
    /\ Len(world.data) = 3
    /\ ~Did("fetch", 2)

\* the consumer took exactly two values of a scenario list and then stopped
ScenarioStopped ==
    /\ world.search = "ok"
    /\ world.data \in ScenarioLists
    /\ cons = "stopped"
    /\ Len(out) = 2

\* fetches that returned text which then parsed / fetches that raised
SuccessfulCycles == {k \in EventsOf("parse") : ParseSplXml(world.data[log[k].i])}
FailedFetches == {k \in EventsOf("fetch") : MakeRequest(world.data[log[k].i]) = "raise"}

ScenarioBudget ==
    /\ Cardinality(SuccessfulCycles) <= 2
    /\ Cardinality(FailedFetches) <= 1
    /\ \A k \in EventsOf("fetch") : log[k].i <= 3

\* C6 as stated: with 10 candidates of which #3 fails to fetch, a consumer
\* that takes the first 2 yielded matches and stops causes at most 2
\* successful fetch+parse cycles plus the 1 failed fetch, and candidates #4
\* to #10 are never fetched.
C6_Original == ScenarioStopped => ScenarioBudget

\* C6 amended: the same, provided candidates #1 and #2 are the two matches
\* (each fetches, parses and passes the filter).
C6_Amended ==
    (ScenarioStopped /\ Qualifies(world.data[1]) /\ Qualifies(world.data[2]))
        => ScenarioBudget

\* the consumer has taken the labels of candidates #1 and #2 and stopped
C6_Witness ==
    /\ ScenarioStopped
    /\ out = << Label(1), Label(2) >>
    /\ Cardinality(SuccessfulCycles) = 2

\* rank of a step in the sequential order: by candidate, then fetch < parse
\* < evaluate; the initial search comes before everything
StepRank(e) ==
    CASE e.op = "search" -> 0
      [] e.op = "fetch" -> 3 * e.i
      [] e.op = "parse" -> 3 * e.i + 1
      [] e.op = "eval" -> 3 * e.i + 2

\* C7: the initial search is invoked exactly once (it is the first step of a
\* started generator and never occurs again), no candidate is fetched, parsed
\* or evaluated twice, and the steps are strictly sequential: fetch, parse,
\* evaluate for candidate i, all before the fetch of any later candidate.
C7_StrictlySequential ==
    /\ (pc # "created" => (Len(log) >= 1 /\ log[1] = Event("search", 0)))
    /\ Cardinality(EventsOf("search")) <= 1
    /\ \A a, b \in DOMAIN log : a < b => StepRank(log[a]) < StepRank(log[b])
    /\ \A k \in EventsOf("parse") : k > 1 /\ log[k - 1] = Event("fetch", log[k].i)
    /\ \A k \in EventsOf("eval") : k > 1 /\ log[k - 1] = Event("parse", log[k].i)

\* three candidates went through fetch, parse and evaluate one after another
C7_Witness ==
    /\ pc = "done"
    /\ Len(world.data) = 3
    /\ Len(log) = 10
    /\ log[10] = Event("eval", 3)

\* C8: whenever a label has just been handed over, count equals the number
\* of labels handed over so far; the count reported at exhaustion equals the
\* number of labels yielded; and count changes only in the step that yields
\* a label (by one), never in a step that skips a candidate.
C8_CountAccurate ==
    /\ [](pc = "yielded" => (count = Len(LabelsIn(out)) /\ count >= 1))
    /\ [](reported # << >> => reported = << Len(LabelsIn(out)) >>)
    /\ [][count' # count =>
            (count' = count + 1 /\ out' = Append(out, Label(idx)))]_vars

\* exhaustion after two yields and one skipped candidate, reporting 2
C8_Witness ==
    /\ reported = << 2 >>
    /\ Len(world.data) = 3
    /\ Len(LabelsIn(out)) = 2

\* C9: with a consumer that keeps asking and remote calls that return or
\* fail, the generator eventually reaches done (unless the consumer stops);
\* no candidate is fetched, parsed or evaluated more than once; the labels
\* yielded never outnumber the candidates the initial search returned; and
\* once done nothing more is yielded, fetched or parsed.
C9_TerminatesBounded ==
    /\ <>(pc = "done" \/ cons = "stopped")
    /\ [](\A a, b \in DOMAIN log : log[a] = log[b] => a = b)
    /\ [](Len(LabelsIn(out)) <= Len(world.data))
    /\ [][pc = "done" => (pc' = "done" /\ out' = out /\ log' = log)]_vars

\* done after a full pass over three candidates, every one of them yielded
C9_Witness ==
    /\ pc = "done"
    /\ cons = "exhausted"
    /\ Len(world.data) = 3
    /\ Len(LabelsIn(out)) = 3
    /\ Cardinality(EventsOf("fetch")) = 3

\* the pagination step has run on a metadata dictionary holding the integers
\* c and t
PaginatedWith(c, t) ==
    /\ pc \in {"return", "done"}
    /\ reported # << >>
    /\ world.metadata = MetaDict(IntVal(c), IntVal(t))

\* C10: when the pagination step has run on metadata with integer pages, an
\* advisory was printed iff current_page < total_pages, and it names
\* current_page + 1 (2 of 5 gives 3, 5 of 5 gives none); an advisory exists
\* only after the loop has passed the last candidate; and the step that
\* prints it changes nothing of the search except the generator's position.
C10_PaginationAdvisory ==
    /\ [](\A c, t \in 0..MaxPage : PaginatedWith(c, t) =>
             /\ (advisory # << >>) <=> (c < t)
             /\ (c < t) => advisory = << c + 1 >>)
    /\ [](PaginatedWith(2, 5) => advisory = << 3 >>)
    /\ [](PaginatedWith(5, 5) => advisory = << >>)
    /\ [](advisory # << >> => (reported # << >> /\ idx > Len(data) /\ Len(data) > 0))
    /\ [][advisory' # advisory =>
            UNCHANGED << world, cons, idx, data, metadata, count, out, requests,
                         log, reported >>]_vars

\* page 2 of 5: the advisory for page 3 was printed after exhaustion
C10_Witness ==
    /\ PaginatedWith(2, 5)
    /\ advisory = << 3 >>
    /\ pc = "done"

\* ------------------------------------------------- the filter predicate
\* keyword k occurs in field f, both lower-cased
KeywordIn(k, f) == Contains(Lower(f), Lower(k))

ActiveNames(l) == {l.active[i].name : i \in DOMAIN l.active}
InactiveNames(l) == Range(l.inactive)

FilterDone == call.fn = "filter" /\ ret.done

RouteClause(l, a) ==
    a.route.none \/ a.route.s = << >> \/ KeywordIn(a.route.s, l.route_code_display)
FormClause(l, a) ==
    a.form = << >> \/ \E k \in Range(a.form) : KeywordIn(k, l.form_code_display)
AllKeywordsFound(kws, names) ==
    \A k \in Range(kws) : \E n \in names : KeywordIn(k, n)
SomeKeywordFound(kws, names) ==
    \E k \in Range(kws) : \E n \in names : KeywordIn(k, n)
AllNamesAllowed(kws, names) ==
    \A n \in names : \E k \in Range(kws) : KeywordIn(k, n)

SixClauses(l, a) ==
    /\ RouteClause(l, a)
    /\ FormClause(l, a)
    /\ a.include_active = << >> \/ AllKeywordsFound(a.include_active, ActiveNames(l))
    /\ a.exclude_active = << >> \/ ~SomeKeywordFound(a.exclude_active, ActiveNames(l))
    /\ a.include_inactive = << >> \/ AllKeywordsFound(a.include_inactive, InactiveNames(l))
    /\ a.exclude_inactive = << >> \/ ~SomeKeywordFound(a.exclude_inactive, InactiveNames(l))
    /\ a.only_active = << >> \/ AllNamesAllowed(a.only_active, ActiveNames(l))

\* C11: the filter lets a label through exactly when the six clauses all
\* hold, each compared after lower-casing keyword and field and each
\* satisfied when its criterion is absent or empty; with no criterion at all
\* every label passes.
C11_FilterIsConjunction ==
    FilterDone =>
        /\ ret.pass <=> SixClauses(call.label, call.args)
        /\ call.args = NoArgs => ret.pass

\* a label that passes with every one of the criteria given
C11_Witness ==
    /\ FilterDone
    /\ ret.pass
    /\ ~call.args.route.none
    /\ call.args.form # << >>
    /\ call.args.only_active # << >>
    /\ call.args.include_active # << >>
    /\ call.args.exclude_active # << >>
    /\ call.args.include_inactive # << >>
    /\ call.args.exclude_inactive # << >>

\* only the named criterion is given
OnlyCriterion(a, name) == a = [NoArgs EXCEPT ![name] = a[name]]

\* C12: a label passes an include clause iff every keyword of the set is
\* found in at least one ingredient name of the list; passing the filter
\* implies both include clauses; an empty ingredient list fails any non-empty
\* include set.
C12_IncludeAllOfAnyOf ==
    FilterDone =>
        LET l == call.label
            a == call.args
        IN  /\ ret.pass => /\ AllKeywordsFound(a.include_active, ActiveNames(l))
                           /\ AllKeywordsFound(a.include_inactive, InactiveNames(l))
            /\ OnlyCriterion(a, "include_active")
                  => (ret.pass <=> AllKeywordsFound(a.include_active, ActiveNames(l)))
            /\ OnlyCriterion(a, "include_inactive")
                  => (ret.pass <=> AllKeywordsFound(a.include_inactive, InactiveNames(l)))
            /\ (a.include_active # << >> /\ l.active = << >>) => ~ret.pass
            /\ (a.include_inactive # << >> /\ l.inactive = << >>) => ~ret.pass

\* two include keywords found in two different active ingredients
C12_Witness ==
    /\ FilterDone
    /\ ret.pass
    /\ call.args.include_active = << KwA, KwB >>
    /\ call.label.active = ActiveList(<< NameA, NameB >>)

AspirinCaffeineCall ==
    FilterCall(ParsedData(NA, NA, ActiveList(<< Aspirin, Caffeine >>), << >>),
               Args(NoRoute, << >>, << >>, << KwAspirin >>, << KwCaffeine >>, << >>, << >>),
               << >>)

\* C13: a label in which any exclude-active keyword occurs in any active
\* ingredient name is never let through, nor one in which any
\* exclude-inactive keyword occurs in any inactive ingredient name, whatever
\* the other criteria; include {aspirin}, exclude {caffeine} on actives
\* [Aspirin, Caffeine] is rejected.
C13_ExcludeAlwaysRejects ==
    FilterDone =>
        /\ SomeKeywordFound(call.args.exclude_active, ActiveNames(call.label)) => ~ret.pass
        /\ SomeKeywordFound(call.args.exclude_inactive, InactiveNames(call.label)) => ~ret.pass
        /\ call = AspirinCaffeineCall => ~ret.pass

\* the worked example has been evaluated: include matches, exclude matches
C13_Witness ==
    /\ FilterDone
    /\ call = AspirinCaffeineCall
    /\ AllKeywordsFound(call.args.include_active, ActiveNames(call.label))
    /\ ~ret.pass

OnlyActiveCall(names) ==
    FilterCall(ParsedData(NA, NA, ActiveList(names), << >>),
               Args(NoRoute, << >>, << KwAcetaminophen >>, << >>, << >>, << >>, << >>),
               << >>)

\* C14: with a non-empty only-active set a label is let through only if
\* every active ingredient contains one of the keywords; {acetaminophen}
\* passes [Acetaminophen] and rejects [Acetaminophen, Diphenhydramine].
C14_OnlyActive ==
    FilterDone =>
        /\ (ret.pass /\ call.args.only_active # << >>)
              => AllNamesAllowed(call.args.only_active, ActiveNames(call.label))
        /\ call = OnlyActiveCall(<< Acetaminophen >>) => ret.pass
        /\ call = OnlyActiveCall(<< Acetaminophen, Diphenhydramine >>) => ~ret.pass

\* the passing example has been evaluated
C14_Witness ==
    /\ FilterDone
    /\ call = OnlyActiveCall(<< Acetaminophen >>)
    /\ ret.pass

LactoseCall ==
    FilterCall(ParsedData(NA, NA, ActiveList(<< Aspirin >>), << Lactose >>),
               Args(NoRoute, << >>, << >>, << >>, << >>, << >>, << KwLactoseMonohydrate >>),
               << KwLactoseMonohydrate >>)

\* either string contains the other, both lower-cased
EitherContains(k, f) == KeywordIn(k, f) \/ KeywordIn(f, k)

\* C15: exclude-inactive rejects only on "keyword in ingredient", while the
\* categorization puts a label in the "with" bucket when keyword and
\* ingredient contain each other either way; keyword 'lactose monohydrate'
\* against ingredient 'Lactose' is not rejected and lands in "with".
C15_TwoMatchingSemantics ==
    FilterDone =>
        LET l == call.label
            a == call.args
        IN  /\ OnlyCriterion(a, "exclude_inactive")
                  => (ret.pass <=> ~SomeKeywordFound(a.exclude_inactive, InactiveNames(l)))
            /\ ret.bucket # "none"
                  => (ret.bucket = "with" <=>
                        \E e \in Range(call.excipients) : \E n \in InactiveNames(l) :
                            EitherContains(e, n))
            /\ call = LactoseCall => (ret.pass /\ ret.bucket \in {"none", "with"})

\* the example went through the filter and into the "with" bucket
C15_Witness ==
    /\ FilterDone
    /\ call = LactoseCall
    /\ ret.pass
    /\ ret.bucket = "with"

\* ---------------------------------------------------------------------
\* _parse_spl_xml: title, form, route and active ingredients of one label
\* ---------------------------------------------------------------------

\* products and substance administrations of one data-elements section
MaxElems == 2

\* An element as ElementTree presents it: text is None (hasText FALSE) or
\* a str; rest is the text of its descendants and their tails, so that
\* "".join(e.itertext()) is text followed by rest.  find() returning None
\* is the element with present FALSE.
Elem(present, hasText, text, rest) ==
    [present |-> present, hasText |-> hasText, text |-> text, rest |-> rest]

NoElem == Elem(FALSE, FALSE, << >>, << >>)

\* an element that carries no text, only a displayName attribute or none
Coded(present, hasAttr, displayName) ==
    [present |-> present, hasAttr |-> hasAttr, displayName |-> displayName]

NoCoded == Coded(FALSE, FALSE, << >>)

\* "".join(elem.itertext())
IterText(e) == (IF e.hasText THEN e.text ELSE << >>) \o e.rest

\* str(elem.text): None is rendered as the four letters of its name
StrOf(e) == IF e.hasText THEN e.text ELSE << "N", "o", "n", "e" >>

\* elem.get("displayName", "N/A")
GetDisplayName(e) == IF e.hasAttr THEN e.displayName ELSE NA

\* str.title(): a letter that follows a non-letter is upper-cased, every
\* other letter is lower-cased
RECURSIVE TitleFrom(_, _)
TitleFrom(s, afterLetter) ==
    IF s = << >> THEN << >>
    ELSE << (IF afterLetter THEN LowerChar(Head(s)) ELSE UpperChar(Head(s))) >>
         \o TitleFrom(Tail(s), IsLetter(Head(s)))

TitleCase(s) == TitleFrom(s, FALSE)

\* one manufacturedProduct of the data section: its name and its formCode
Product(name, formCode) == [name |-> name, formCode |-> formCode]

\* one substanceAdministration of the data section: its routeCode
Administration(routeCode) == [routeCode |-> routeCode]

\* one ingredient with classCode ACTIB: its ingredientSubstance/name and
\* whether it has a quantity/numerator (value and unit given)
ActiveElem(name, hasNumerator, value, unit) ==
    [name |-> name, hasNumerator |-> hasNumerator, value |-> value, unit |-> unit]

\* A well-formed document in document order: the document-level title,
\* the data-elements section (code 48780-1) with its products,
\* administrations and active ingredients, then a later section with a
\* title of its own and a manufacturedProduct outside the data section.
Document(title, hasData, products, admins, actives, sectionTitle, otherName) ==
    [title |-> title, hasData |-> hasData, products |-> products,
     admins |-> admins, actives |-> actives,
     sectionTitle |-> sectionTitle, otherName |-> otherName,
     inactives |-> << >>, hasInactiveSection |-> FALSE, paras |-> << >>]

\* the same document with the ingredientSubstance/name elements of its
\* IACT ingredients (in the data section) and with an inactive-ingredient
\* section (code 51727-6) whose paragraphs have the given descendant text
WithInactive(doc, inactives, hasInactiveSection, paras) ==
    [doc EXCEPT !.inactives = inactives,
                !.hasInactiveSection = hasInactiveSection,
                !.paras = paras]

\* find(".//manufacturedProduct/name") in the data section: the first name
\* element that is a child of a manufacturedProduct
RECURSIVE FindProductName(_)
FindProductName(products) ==
    IF products = << >> THEN NoElem
    ELSE IF Head(products).name.present THEN Head(products).name
    ELSE FindProductName(Tail(products))

\* find(".//manufacturedProduct/formCode") in the data section
RECURSIVE FindFormCode(_)
FindFormCode(products) ==
    IF products = << >> THEN NoCoded
    ELSE IF Head(products).formCode.present THEN Head(products).formCode
    ELSE FindFormCode(Tail(products))

\* the route code looked for in the first substanceAdministration only
FindRouteCode_FirstAdministration(admins) ==
    IF admins = << >> THEN NoCoded ELSE Head(admins).routeCode

\* find(".//substanceAdministration/routeCode") in the data section
RECURSIVE FindRouteCode(_)
FindRouteCode(admins) ==
    IF admins = << >> THEN NoCoded
    ELSE IF Head(admins).routeCode.present THEN Head(admins).routeCode
    ELSE FindRouteCode(Tail(admins))

\* root.find(".//title"): the first title element of the whole document
RootFindTitle(doc) ==
    IF doc.title.present THEN doc.title ELSE doc.sectionTitle

\* root.find(".//manufacturedProduct/name"): first in the whole document
RootFindProductName(doc) ==
    IF doc.hasData /\ FindProductName(doc.products).present
    THEN FindProductName(doc.products)
    ELSE doc.otherName

\* " ".join(x.split()).strip()
Collapsed(s) == Strip(CollapseSpaces(s))

\* lines 358-363: the product name's text when it has some, else all of
\* its descendant text; a title_text of None is the empty string here,
\* the code only ever tests its truth
ProductNameText(e) ==
    LET direct == IF e.hasText /\ e.text # << >> THEN Collapsed(e.text) ELSE << >>
    IN  IF direct # << >> THEN direct ELSE Collapsed(IterText(e))

\* lines 367-373: str() of the title's text, whatever it is, and the
\* descendant text only when that came out empty
TitleElemText(e) ==
    LET direct == Collapsed(StrOf(e))
    IN  IF direct # << >> THEN direct ELSE Collapsed(IterText(e))

DrugFacts == << "D", "r", "u", "g", " ", "F", "a", "c", "t", "s" >>
DrugFactsLower == Lower(DrugFacts)
DrugFactsLabelLower == DrugFactsLower \o << " ", "l", "a", "b", "e", "l" >>

\* title_text.lower() in ["drug facts", "drug facts label"]
IsPlaceholder(title_text) ==
    Lower(title_text) \in {DrugFactsLower, DrugFactsLabelLower}

\* lines 386-390: name_elem.text.strip() of every active ingredient whose
\* name element exists and has text
RECURSIVE ActiveNameTexts(_)
ActiveNameTexts(actives) ==
    IF actives = << >> THEN << >>
    ELSE LET n == Head(actives).name
         IN  (IF n.present /\ n.hasText /\ n.text # << >>
              THEN << Strip(n.text) >> ELSE << >>)
             \o ActiveNameTexts(Tail(actives))

\* the synthesized title made of the first active ingredient alone
SynthesizedTitle_FirstOnly(active_names) == Head(active_names)

\* " / ".join(active_names)
SynthesizedTitle(active_names) == Join(<< " ", "/", " " >>, active_names)

\* lines 376-399: what replaces a placeholder title
ReplacePlaceholder(doc, title_text) ==
    IF doc.hasData
    THEN LET product_elem == FindProductName(doc.products)
         IN  IF product_elem.present
             THEN LET product_text == Collapsed(IterText(product_elem))
                  IN  IF product_text # << >> THEN product_text ELSE title_text
             ELSE LET active_names == ActiveNameTexts(doc.actives)
                  IN  IF active_names # << >>
                      THEN SynthesizedTitle(active_names) ELSE title_text
    ELSE LET product_elem == RootFindProductName(doc)
         IN  IF product_elem.present
             THEN LET product_text == Collapsed(IterText(product_elem))
                  IN  IF product_text # << >> THEN product_text ELSE title_text
             ELSE title_text

\* lines 354-401
ResolveTitle(doc) ==
    LET product_name_elem ==
            IF doc.hasData THEN FindProductName(doc.products) ELSE NoElem
        fromProduct ==
            IF product_name_elem.present
            THEN ProductNameText(product_name_elem) ELSE << >>
        title_elem == RootFindTitle(doc)
        title_text ==
            IF fromProduct # << >> THEN fromProduct
            ELSE IF ~title_elem.present THEN << >>
            ELSE LET fromTitle == TitleElemText(title_elem)
                 IN  IF fromTitle # << >> /\ IsPlaceholder(fromTitle)
                     THEN ReplacePlaceholder(doc, fromTitle)
                     ELSE fromTitle
    IN  IF title_text # << >> THEN title_text ELSE NA

\* lines 405-407
ResolveForm(doc) ==
    IF doc.hasData /\ FindFormCode(doc.products).present
    THEN GetDisplayName(FindFormCode(doc.products)) ELSE NA

\* lines 410-412
ResolveRoute(doc) ==
    IF doc.hasData /\ FindRouteCode(doc.admins).present
    THEN GetDisplayName(FindRouteCode(doc.admins)) ELSE NA

Unknown == << "U", "n", "k", "n", "o", "w", "n" >>

\* line 427 calls name.title() on None when a name element has no text
ActiveRaises(actives) ==
    \E i \in DOMAIN actives : actives[i].name.present /\ ~actives[i].name.hasText

\* the active list with an ingredient left out when an earlier one is the same
ResolveActive_NoDuplicates(actives) ==
    LET entry(a) ==
            Ingredient(TitleCase(IF a.name.present THEN a.name.text ELSE Unknown),
                       IF a.hasNumerator
                       THEN Strip(a.value \o << " " >> \o a.unit) ELSE NoStrength)
        tagged == [i \in DOMAIN actives |-> [i |-> i, a |-> actives[i]]]
        kept == SelectSeq(tagged, LAMBDA t : \A j \in 1..(t.i - 1) : actives[j] # t.a)
    IN  [k \in DOMAIN kept |-> entry(kept[k].a)]

\* lines 415-427, for a document on which they do not raise
ResolveActive(actives) ==
    [i \in DOMAIN actives |->
        LET a == actives[i]
            name == IF a.name.present THEN a.name.text ELSE Unknown
            strength == IF a.hasNumerator
                        THEN Strip(a.value \o << " " >> \o a.unit)
                        ELSE NoStrength
        IN  Ingredient(TitleCase(name), strength)]

\* line 433 calls name_elem.text.strip() on None when a name element has
\* no text
InactiveRaises(inactives) ==
    \E i \in DOMAIN inactives : inactives[i].present /\ ~inactives[i].hasText

\* lines 430-433: the set inactive_ingredients_structured
StructuredInactive(inactives) ==
    {Upper(Strip(inactives[i].text)) : i \in {j \in DOMAIN inactives : inactives[j].present}}

\* s.startswith(prefix)
StartsWith(s, prefix) ==
    Len(s) >= Len(prefix) /\ SubSeq(s, 1, Len(prefix)) = prefix

\* s.strip(chars): the characters of chars removed from both ends
RECURSIVE LStripChars(_, _)
LStripChars(s, chars) ==
    IF s # << >> /\ Head(s) \in chars THEN LStripChars(Tail(s), chars) ELSE s

RECURSIVE RStripChars(_, _)
RStripChars(s, chars) ==
    IF s # << >> /\ s[Len(s)] \in chars
    THEN RStripChars(SubSeq(s, 1, Len(s) - 1), chars) ELSE s

StripChars(s, chars) == LStripChars(RStripChars(s, chars), chars)

\* s.split(sep) for a non-empty sep: the pieces between the occurrences
\* of sep found from left to right; piece is the one being read
RECURSIVE SplitFrom(_, _, _)
SplitFrom(s, sep, piece) ==
    IF s = << >> THEN << piece >>
    ELSE IF StartsWith(s, sep)
         THEN << piece >> \o SplitFrom(SubSeq(s, Len(sep) + 1, Len(s)), sep, << >>)
         ELSE SplitFrom(Tail(s), sep, Append(piece, Head(s)))

Split(s, sep) == SplitFrom(s, sep, << >>)

InactiveHeader ==
    << "i", "n", "a", "c", "t", "i", "v", "e", " ",
       "i", "n", "g", "r", "e", "d", "i", "e", "n", "t", "s" >>

AndToken == << " ", "A", "N", "D", " " >>

\* lines 439-442: the stripped descendant text of every paragraph that
\* has some
ParaTexts(paras) ==
    SelectSeq([i \in DOMAIN paras |-> Strip(paras[i])], LAMBDA t : t # << >>)

\* lines 445-448: the prose in lower case without its heading and without
\* dots, colons and spaces at either end
FullText(para_texts) ==
    LET joined == Lower(Join(<< " " >>, para_texts))
        body == IF StartsWith(joined, InactiveHeader)
                THEN Strip(SubSeq(joined, Len(InactiveHeader) + 1, Len(joined)))
                ELSE joined
    IN  StripChars(body, {".", ":", " "})

\* lines 452-460: what one comma-separated item adds to the set
ItemMembers(item) ==
    LET clean_item == Upper(Strip(item))
    IN  IF clean_item = << >> THEN {}
        ELSE IF Contains(clean_item, AndToken)
        THEN LET sub_items == Split(clean_item, AndToken)
             IN  {Strip(sub_items[i]) :
                     i \in {j \in DOMAIN sub_items : Strip(sub_items[j]) # << >>}}
        ELSE {clean_item}

\* lines 436-460: the set inactive_ingredients_text
FreeTextInactive(doc) ==
    IF ~doc.hasInactiveSection \/ ParaTexts(doc.paras) = << >> THEN {}
    ELSE LET ingredients_list == Split(FullText(ParaTexts(doc.paras)), << "," >>)
         IN  UNION {ItemMembers(ingredients_list[i]) : i \in DOMAIN ingredients_list}

\* line 464: combined_inactive
CombinedInactive(doc) ==
    (IF doc.hasData THEN StructuredInactive(doc.inactives) ELSE {})
    \cup FreeTextInactive(doc)

\* the orders in which a set can be iterated
IterationOrders(S) ==
    {order \in [1..Cardinality(S) -> S] : \A i, j \in 1..Cardinality(S) : order[i] = order[j] => i = j}

\* code points of the characters that are compared
AsciiOrder ==
    << "\t", "\n", " ", "&", "'", "(", ")", ",", "-", ".", "/",
       "0", "1", "2", "3", "4", "5", "6", "7", "8", "9", ":" >>
    \o UpperLetters \o LowerLetters

Ord(c) == CHOOSE i \in DOMAIN AsciiOrder : AsciiOrder[i] = c

\* a < b on two str values
RECURSIVE StrLess(_, _)
StrLess(a, b) ==
    IF b = << >> THEN FALSE
    ELSE IF a = << >> THEN TRUE
    ELSE IF Head(a) = Head(b) THEN StrLess(Tail(a), Tail(b))
    ELSE Ord(Head(a)) < Ord(Head(b))

\* the list left in the order it was built
Sorted_AsIterated(items) == items

\* sorted(items): each item put before the first larger one
RECURSIVE Sorted(_)
Sorted(items) ==
    IF items = << >> THEN << >>
    ELSE LET rest == Sorted(Tail(items))
             smaller == SelectSeq(rest, LAMBDA x : ~StrLess(Head(items), x))
             larger == SelectSeq(rest, LAMBDA x : StrLess(Head(items), x))
         IN  smaller \o << Head(items) >> \o larger

\* line 465: sorted([item.title() for item in combined_inactive if item]),
\* order being the order in which the set is iterated
ResolveInactive(order) ==
    LET kept == SelectSeq(order, LAMBDA item : item # << >>)
    IN  Sorted([i \in DOMAIN kept |-> TitleCase(kept[i])])

\* the value _parse_spl_xml returns: a label, or None (ok FALSE) when the
\* traversal raised and the except clause swallowed it
ParsedLabel(ok, title, form, route, active, inactive) ==
    [ok |-> ok, title |-> title, form_code_display |-> form,
     route_code_display |-> route, active |-> active, inactive |-> inactive]

ParseFailure == ParsedLabel(FALSE, << >>, << >>, << >>, << >>, << >>)

\* lines 309-475 on a well-formed document
ParseSplXmlString(doc, order) ==
    IF doc.hasData /\ (ActiveRaises(doc.actives) \/ InactiveRaises(doc.inactives))
    THEN ParseFailure
    ELSE ParsedLabel(TRUE, ResolveTitle(doc), ResolveForm(doc), ResolveRoute(doc),
                IF doc.hasData THEN ResolveActive(doc.actives) ELSE << >>,
                ResolveInactive(order))

\* ---- the documents the parser is applied to ----
Blank == << " ", " " >>
SpacedText == << " ", "T", " ", "\n", "x", " " >>
ShoutedPlaceholder ==
    << "D", "R", "U", "G", " ", " ", "F", "a", "c", "t", "s", " ",
       "L", "A", "B", "E", "L" >>
ChildText == << " ", "T", "y" >>
ProductText == << "P", " ", " ", "r" >>
OutsideText == << "O", "u" >>
SectionText == << "I", "n" >>
Tablet == << "T", "A", "B" >>
Oral == << "O", "R", "A", "L" >>
Topical == << "T", "O", "P" >>
LowerName == << "z", "i", "n", "c", " ", "o", "x" >>

\* title elements: absent, or any of the texts with or without child text
TitleElems ==
    {NoElem}
    \cup {Elem(TRUE, FALSE, << >>, r) : r \in {<< >>, ChildText}}
    \cup {Elem(TRUE, TRUE, t, r) :
            t \in {Blank, SpacedText, DrugFacts, ShoutedPlaceholder},
            r \in {<< >>, ChildText}}

SectionTitleElems == {NoElem, Elem(TRUE, TRUE, SectionText, << >>)}

ProductNameElems ==
    {NoElem, Elem(TRUE, FALSE, << >>, << >>), Elem(TRUE, TRUE, Blank, ChildText),
     Elem(TRUE, TRUE, ProductText, << >>)}

OtherNameElems ==
    {NoElem, Elem(TRUE, FALSE, << >>, << >>), Elem(TRUE, TRUE, OutsideText, << >>)}

FormCodes ==
    {NoCoded, Coded(TRUE, FALSE, << >>), Coded(TRUE, TRUE, << >>),
     Coded(TRUE, TRUE, Tablet)}

RouteCodes ==
    {NoCoded, Coded(TRUE, FALSE, << >>), Coded(TRUE, TRUE, Oral),
     Coded(TRUE, TRUE, Topical)}

ActiveNameElems ==
    {NoElem, Elem(TRUE, FALSE, << >>, << >>), Elem(TRUE, TRUE, Blank, << >>),
     Elem(TRUE, TRUE, Aspirin, << >>), Elem(TRUE, TRUE, Caffeine, << >>)}

ActiveElems ==
    {ActiveElem(n, FALSE, << >>, << >>) : n \in ActiveNameElems}
    \cup {ActiveElem(Elem(TRUE, TRUE, LowerName, << >>), TRUE, << "5" >>, << "m", "g" >>)}

NamedProducts == SeqsUpTo({Product(n, NoCoded) : n \in ProductNameElems}, MaxElems)
FormedProducts == SeqsUpTo({Product(NoElem, f) : f \in FormCodes}, MaxElems)
Administrations == SeqsUpTo({Administration(r) : r \in RouteCodes}, MaxElems)
ActiveLists == SeqsUpTo(ActiveElems, MaxIngredients)

ParseCall(doc) == [fn |-> "parse", doc |-> doc]

\* every non-streaming variable idle; one document handed to the parser:
\* documents that vary the title sources, documents without a data
\* section, and documents that vary the form and route codes
InitParse ==
    /\ world = Response("ok", FALSE, << >>, NoMeta)
    /\ pc = "created"
    /\ cons = "stopped"
    /\ idx = 0
    /\ data = << >>
    /\ metadata = NoMeta
    /\ count = 0
    /\ out = << >>
    /\ requests = 0
    /\ log = << >>
    /\ diag = << >>
    /\ reported = << >>
    /\ advisory = << >>
    /\ \/ \E t \in TitleElems, p \in NamedProducts, a \in ActiveLists,
             s \in SectionTitleElems, o \in OtherNameElems :
             call = ParseCall(Document(t, TRUE, p, << >>, a, s, o))
       \/ \E t \in TitleElems, s \in SectionTitleElems, o \in OtherNameElems :
             call = ParseCall(Document(t, FALSE, << >>, << >>, << >>, s, o))
       \/ \E p \in FormedProducts, r \in Administrations, o \in OtherNameElems :
             call = ParseCall(Document(Elem(TRUE, TRUE, SpacedText, << >>), TRUE,
                                       p, r, << >>, NoElem, o))
    /\ ret = NoReturn

\* one call of _parse_spl_xml
ParseLabel ==
    /\ call.fn = "parse"
    /\ ~ret.done
    /\ \E order \in IterationOrders(CombinedInactive(call.doc)) :
          ret' = [done |-> TRUE, label |-> ParseSplXmlString(call.doc, order)]
    /\ UNCHANGED << call, world, pc, cons, idx, data, metadata, count, out,
                    requests, log, diag, reported, advisory >>

NextParse == ParseLabel

SpecParse == InitParse /\ [][NextParse]_vars

\* ---- documents that vary the two inactive-ingredient sources ----
MaxParas == 2

ProseCommaAnd ==
    << "a", ",", " ", "b", ",", " ", "a", "n", "d", " ", "c" >>
ProseHeaded ==
    << "I", "n", "a", "c", "t", "i", "v", "e", " ", "I", "n", "g", "r",
       "e", "d", "i", "e", "n", "t", "s", ":", " ", "a", ",", " ", "B",
       "." >>
ProseAnd ==
    << "c", " ", "a", "n", "d", " ", "a" >>
ProsePunctuated ==
    << "b", ".", ",", " ", "s", "a", "n", "d" >>

Proses == {ProseCommaAnd, ProseHeaded, ProseAnd, ProsePunctuated, Blank}

InactiveNameElems ==
    {NoElem, Elem(TRUE, FALSE, << >>, << >>), Elem(TRUE, TRUE, Blank, << >>),
     Elem(TRUE, TRUE, << "b" >>, << >>), Elem(TRUE, TRUE, << " ", "C", " " >>, << >>)}

InactiveLists == SeqsUpTo(InactiveNameElems, MaxIngredients)
ParaLists == SeqsUpTo(Proses, MaxParas)

PlainDocument(hasData) ==
    Document(Elem(TRUE, TRUE, SpacedText, << >>), hasData, << >>, << >>, << >>,
             NoElem, NoElem)

\* every non-streaming variable idle; one document handed to the parser,
\* with or without a data section and an inactive-ingredient section
InitInactive ==
    /\ world = Response("ok", FALSE, << >>, NoMeta)
    /\ pc = "created"
    /\ cons = "stopped"
    /\ idx = 0
    /\ data = << >>
    /\ metadata = NoMeta
    /\ count = 0
    /\ out = << >>
    /\ requests = 0
    /\ log = << >>
    /\ diag = << >>
    /\ reported = << >>
    /\ advisory = << >>
    /\ \/ \E i \in InactiveLists, t \in ParaLists :
             call = ParseCall(WithInactive(PlainDocument(TRUE), i, TRUE, t))
       \/ \E i \in InactiveLists :
             call = ParseCall(WithInactive(PlainDocument(TRUE), i, FALSE, << >>))
       \/ \E t \in ParaLists :
             call = ParseCall(WithInactive(PlainDocument(FALSE), << >>, TRUE, t))
    /\ ret = NoReturn

SpecInactive == InitInactive /\ [][NextParse]_vars

\* ---- several calls of _parse_spl_xml on one DailyMedAPI object ----
\* most calls in one run
MaxParses == 3

ReparseInactives ==
    {<< >>,
     << Elem(TRUE, TRUE, << "b" >>, << >>), Elem(TRUE, TRUE, << " ", "C", " " >>, << >>) >>,
     << Elem(TRUE, FALSE, << >>, << >>) >>}

ReparseParas == {<< >>, << ProseCommaAnd >>, << ProseHeaded, ProseAnd >>}

ReparseDocs ==
    {WithInactive(PlainDocument(TRUE), i, TRUE, t) : i \in ReparseInactives, t \in ReparseParas}
    \cup {Document(Elem(TRUE, TRUE, DrugFacts, << >>), TRUE, << >>, << >>,
                   << ActiveElem(Elem(TRUE, TRUE, Caffeine, << >>), FALSE, << >>, << >>),
                      ActiveElem(Elem(TRUE, TRUE, Aspirin, << >>), FALSE, << >>, << >>) >>,
                   NoElem, NoElem)}

\* two markups that one object is asked to parse, in any order, any number
\* of times; the object has no attribute a parse could write
InitReparse ==
    /\ world = Response("ok", FALSE, << >>, NoMeta)
    /\ pc = "created"
    /\ cons = "stopped"
    /\ idx = 0
    /\ data = << >>
    /\ metadata = NoMeta
    /\ count = 0
    /\ out = << >>
    /\ requests = 0
    /\ log = << >>
    /\ diag = << >>
    /\ reported = << >>
    /\ advisory = << >>
    /\ \E d1 \in ReparseDocs, d2 \in ReparseDocs :
          call = [fn |-> "reparse", docs |-> << d1, d2 >>]
    /\ ret = [done |-> FALSE, results |-> << >>]

\* one more call of _parse_spl_xml, on either markup; the set of inactive
\* names is iterated in whatever order this call finds it
ParseInTurn ==
    /\ call.fn = "reparse"
    /\ Len(ret.results) < MaxParses
    /\ \E k \in DOMAIN call.docs :
          \E order \in IterationOrders(CombinedInactive(call.docs[k])) :
             ret' = [done |-> TRUE,
                     results |-> Append(ret.results,
                                    [doc |-> k,
                                     label |-> ParseSplXmlString(call.docs[k], order)])]
    /\ UNCHANGED << call, world, pc, cons, idx, data, metadata, count, out,
                    requests, log, diag, reported, advisory >>

NextReparse == ParseInTurn

SpecReparse == InitReparse /\ [][NextReparse]_vars

\* ---- search_with_excipients: a caller that drains the generator ----

\* what the documents of the catalogue parse to
LabelWithLactose == ParsedData(NA, NA, ActiveList(<< Aspirin >>), << Lactose >>)
LabelWithB == ParsedData(NA, NA, ActiveList(<< Aspirin >>), << NameB >>)
CallerLabels == {LabelWithLactose, LabelWithB}

ExcipientLists == {<< >>, << KwLactoseMonohydrate >>, << KwB >>}

\* MockArgs carries no filter criterion, so no parsed label is rejected
ServiceKinds == {"FetchError", "BadXml", "Match"}

\* a caller of search_with_filters: which function it is, the excipient
\* keywords of the request, and the label each candidate's document holds
CallerCall(fn, excipients, labels) ==
    [fn |-> fn, excipients |-> excipients, labels |-> labels]

InitCaller(fn, responses) ==
    /\ world \in responses
    /\ pc = "created"
    /\ cons = "idle"
    /\ idx = 0
    /\ data = << >>
    /\ metadata = NoMeta
    /\ count = 0
    /\ out = << >>
    /\ requests = 0
    /\ log = << >>
    /\ diag = << >>
    /\ reported = << >>
    /\ advisory = << >>
    /\ \E e \in ExcipientLists, l \in [1..Len(world.data) -> CallerLabels] :
          call = CallerCall(fn, e, l)
    /\ ret = NoReturn

InitService ==
    InitCaller("excipients",
               OkResponses(SeqsUpTo(ServiceKinds, MaxCands), {NoMeta}) \cup FailedResponses)

\* what search_with_excipients hands back: a dictionary (with or without
\* the totals in its metadata), or nothing because an exception left it
ServiceResult(outcome, results_free, results_with, hasTotals, total) ==
    [done |-> TRUE, outcome |-> outcome, results_free |-> results_free,
     results_with |-> results_with, hasTotals |-> hasTotals,
     total_free |-> Len(results_free), total_with |-> Len(results_with),
     total |-> total]

\* services.py 412-476: the loop over all_results; result["ndc"] = ... and
\* result.get(...) raise on a result that is None, outside any handler
CategorizeAll(all_results, labels, excipients) ==
    IF \E i \in DOMAIN all_results : ~all_results[i].label
    THEN ServiceResult("raised", << >>, << >>, FALSE, 0)
    ELSE ServiceResult("dict",
            SelectSeq(all_results, LAMBDA v : ~ContainsExcipient(labels[v.idx], excipients)),
            SelectSeq(all_results, LAMBDA v : ContainsExcipient(labels[v.idx], excipients)),
            TRUE, Len(all_results))

\* services.py 399-476: once the generator is exhausted the results are
\* put into the two lists; an exception out of the generator is caught and
\* answered with empty lists and an empty metadata dictionary
ServiceReturn ==
    /\ call.fn = "excipients"
    /\ cons \in {"exhausted", "raised"}
    /\ ~ret.done
    /\ ret' = IF cons = "raised"
              THEN ServiceResult("dict", << >>, << >>, FALSE, 0)
              ELSE CategorizeAll(out, call.labels, call.excipients)
    /\ UNCHANGED << call, world, pc, cons, idx, data, metadata, count, out,
                    requests, log, diag, reported, advisory >>

NextService ==
    \/ Request
    \/ Search
    \/ LoopNext
    \/ FetchDocument
    \/ ParseDocument
    \/ FilterAndYield
    \/ Complete
    \/ Pagination
    \/ Return
    \/ ServiceReturn

SpecService == InitService /\ [][NextService]_vars

\* ---- search_drugs_stream: the drug-name search of the streaming endpoint ----
\* (requests that name a set id, an NDC, an RxCUI or a drug class take
\* other branches of generate() and are not modelled)

\* the request may carry filter criteria, so a parsed label can be rejected
StreamKinds == {"FetchError", "Rejected", "Match"}

InitStream ==
    InitCaller("stream",
               OkResponses(SeqsUpTo(StreamKinds, MaxCands), {NoMeta}) \cup FailedResponses)

\* one line of the NDJSON stream
Message(type, i, category, total_free, total_with) ==
    [type |-> type, idx |-> i, category |-> category,
     total_free |-> total_free, total_with |-> total_with,
     total |-> total_free + total_with]

\* the local state of generate(): the lines sent so far, how many yielded
\* values the loop body has dealt with, and the lengths of the two lists
Generating(stream, handled, free, with, closed) ==
    [done |-> closed, stream |-> stream, handled |-> handled,
     free |-> free, with |-> with]

\* api_views.py 195-216: the "init" line, sent before the search starts
StreamInit ==
    /\ call.fn = "stream"
    /\ ret = NoReturn
    /\ ret' = Generating(<< Message("init", 0, "none", 0, 0) >>, 0, 0, 0, FALSE)
    /\ UNCHANGED << call, world, pc, cons, idx, data, metadata, count, out,
                    requests, log, diag, reported, advisory >>

\* the for statement of line 439 asks the generator for its next value
StreamRequest ==
    /\ call.fn = "stream"
    /\ ret # NoReturn
    /\ ~ret.done
    /\ ret.handled = Len(out)
    /\ Request

\* a None counted and sent like a label
StreamBody_CountNone ==
    /\ call.fn = "stream"
    /\ ret # NoReturn
    /\ ~ret.done
    /\ cons = "idle"
    /\ ret.handled < Len(out)
    /\ ret' = Generating(Append(ret.stream,
                            Message("result", out[ret.handled + 1].idx, "free",
                                    ret.free + 1, ret.with)),
                         ret.handled + 1, ret.free + 1, ret.with, FALSE)
    /\ UNCHANGED << call, world, pc, cons, idx, data, metadata, count, out,
                    requests, log, diag, reported, advisory >>

\* api_views.py 440-517: the loop body; None is skipped, a label is put in
\* one of the two lists and sent with the running totals
StreamBody ==
    /\ call.fn = "stream"
    /\ ret # NoReturn
    /\ ~ret.done
    /\ cons = "idle"
    /\ ret.handled < Len(out)
    /\ LET result == out[ret.handled + 1]
       IN  IF ~result.label
           THEN ret' = [ret EXCEPT !.handled = ret.handled + 1]
           ELSE IF ContainsExcipient(call.labels[result.idx], call.excipients)
           THEN ret' = Generating(Append(ret.stream,
                                     Message("result", result.idx, "with",
                                             ret.free, ret.with + 1)),
                                  ret.handled + 1, ret.free, ret.with + 1, FALSE)
           ELSE ret' = Generating(Append(ret.stream,
                                     Message("result", result.idx, "free",
                                             ret.free + 1, ret.with)),
                                  ret.handled + 1, ret.free + 1, ret.with, FALSE)
    /\ UNCHANGED << call, world, pc, cons, idx, data, metadata, count, out,
                    requests, log, diag, reported, advisory >>

\* api_views.py 647-664: the "complete" line after the loop, or the "error"
\* line of the handler when an exception came out of the generator
StreamEnd ==
    /\ call.fn = "stream"
    /\ ret # NoReturn
    /\ ~ret.done
    /\ cons \in {"exhausted", "raised"}
    /\ ret.handled = Len(out)
    /\ ret' = Generating(Append(ret.stream,
                            IF cons = "raised"
                            THEN Message("error", 0, "none", 0, 0)
                            ELSE Message("complete", 0, "none", ret.free, ret.with)),
                         ret.handled, ret.free, ret.with, TRUE)
    /\ UNCHANGED << call, world, pc, cons, idx, data, metadata, count, out,
                    requests, log, diag, reported, advisory >>

NextStream ==
    \/ StreamInit
    \/ StreamRequest
    \/ StreamBody
    \/ StreamEnd
    \/ Search
    \/ LoopNext
    \/ FetchDocument
    \/ ParseDocument
    \/ FilterAndYield
    \/ Complete
    \/ Pagination
    \/ Return

SpecStream == InitStream /\ [][NextStream]_vars

\* ---- main: the 'search' command of the command line ----

CliCall == [fn |-> "cli"]

\* the local state of the command: results_found, the results printed in
\* full, whether the "No results matched ..." line was printed, and how the
\* command ended ("running" until then)
Cli(results_found, printed, no_match, exit) ==
    [done |-> exit # "running", results_found |-> results_found,
     printed |-> printed, no_match |-> no_match, exit |-> exit]

InitCli ==
    /\ world \in OkResponses(SeqsUpTo(CandKinds, MaxCands), SmallMetas) \cup FailedResponses
    /\ pc = "created"
    /\ cons = "idle"
    /\ idx = 0
    /\ data = << >>
    /\ metadata = NoMeta
    /\ count = 0
    /\ out = << >>
    /\ requests = 0
    /\ log = << >>
    /\ diag = << >>
    /\ reported = << >>
    /\ advisory = << >>
    /\ call = CliCall
    /\ ret = Cli(0, 0, FALSE, "running")

\* line 799: the for statement asks the generator for its next value
CliRequest ==
    /\ call.fn = "cli"
    /\ ~ret.done
    /\ ret.results_found = Len(out)
    /\ Request

\* lines 800-801 with print_search_result (652-662): the value is counted
\* and printed; data.get on None raises AttributeError, which the last
\* handler of main (900-902) answers with the unexpected-error exit
CliBody ==
    /\ call.fn = "cli"
    /\ ~ret.done
    /\ cons = "idle"
    /\ ret.results_found < Len(out)
    /\ ret' = IF out[ret.results_found + 1].label
              THEN Cli(ret.results_found + 1, ret.printed + 1, FALSE, "running")
              ELSE Cli(ret.results_found + 1, ret.printed, FALSE, "unexpected")
    /\ UNCHANGED << call, world, pc, cons, idx, data, metadata, count, out,
                    requests, log, diag, reported, advisory >>

\* lines 803-804 after the loop; an exception out of the generator is a
\* JSONDecodeError, answered by the first handler of main (896-899)
CliEnd ==
    /\ call.fn = "cli"
    /\ ~ret.done
    /\ cons \in {"exhausted", "raised"}
    /\ ret.results_found = Len(out)
    /\ ret' = IF cons = "raised"
              THEN Cli(ret.results_found, ret.printed, FALSE, "error")
              ELSE Cli(ret.results_found, ret.printed, ret.results_found = 0, "ok")
    /\ UNCHANGED << call, world, pc, cons, idx, data, metadata, count, out,
                    requests, log, diag, reported, advisory >>

NextCli ==
    \/ CliRequest
    \/ CliBody
    \/ CliEnd
    \/ Search
    \/ LoopNext
    \/ FetchDocument
    \/ ParseDocument
    \/ FilterAndYield
    \/ Complete
    \/ Pagination
    \/ Return

SpecCli == InitCli /\ [][NextCli]_vars

\* ---- claims about the parser ----

Parsed == call.fn = "parse" /\ ret.done /\ ret.label.ok

\* the text a source element offers as the claims describe it: its direct
\* text, or its whitespace-collapsed descendant text when that is empty
SourceText(e) ==
    IF ~e.present THEN << >>
    ELSE LET direct == IF e.hasText THEN Collapsed(e.text) ELSE << >>
         IN  IF direct # << >> THEN direct ELSE Collapsed(IterText(e))

\* source (1): the manufactured-product name of the data-elements section
ProductSource(doc) ==
    IF doc.hasData THEN SourceText(FindProductName(doc.products)) ELSE << >>

\* sources (1) and (2) in order, first non-empty wins
FirstNonEmptyTitle(doc) ==
    IF ProductSource(doc) # << >> THEN ProductSource(doc) ELSE SourceText(doc.title)

\* C16: the title is the first non-empty of the product name (direct text,
\* else descendant text) and the document-level title (direct text, else
\* descendant text); stated on labels whose resolved title is no
\* placeholder.  The code turns a title without direct text into "None".
C16_TitleFirstNonEmptyWins ==
    (Parsed /\ FirstNonEmptyTitle(call.doc) # << >>
            /\ ~IsPlaceholder(FirstNonEmptyTitle(call.doc)))
        => ret.label.title = FirstNonEmptyTitle(call.doc)

\* every manufactured-product name of the document, in document order
RECURSIVE NameTexts(_)
NameTexts(products) ==
    IF products = << >> THEN << >>
    ELSE (IF SourceText(Head(products).name) # << >>
          THEN << SourceText(Head(products).name) >> ELSE << >>)
         \o NameTexts(Tail(products))

AnyProductName(doc) ==
    LET inData == IF doc.hasData THEN NameTexts(doc.products) ELSE << >>
        all == inData \o (IF SourceText(doc.otherName) # << >>
                          THEN << SourceText(doc.otherName) >> ELSE << >>)
    IN  IF all = << >> THEN << >> ELSE Head(all)

Replacement(doc, placeholder) ==
    IF AnyProductName(doc) # << >> THEN AnyProductName(doc)
    ELSE IF doc.hasData /\ ActiveNameTexts(doc.actives) # << >>
         THEN Join(<< " ", "/", " " >>, ActiveNameTexts(doc.actives))
    ELSE placeholder

\* C17: a resolved title that is a placeholder ("drug facts" or "drug facts
\* label", any case) is replaced by a non-empty product name found anywhere
\* in the document, else by the " / "-joined structured active names, else
\* kept.  The code keeps the placeholder when the data section has an
\* empty name element, and never looks outside an existing data section.
C17_PlaceholderReplaced ==
    (Parsed /\ FirstNonEmptyTitle(call.doc) # << >>
            /\ IsPlaceholder(FirstNonEmptyTitle(call.doc)))
        => ret.label.title =
               Replacement(call.doc, FirstNonEmptyTitle(call.doc))

NamesOf(actives) == [i \in DOMAIN actives |-> actives[i].name]

AspirinCaffeineDoc(doc) ==
    /\ doc.title = Elem(TRUE, TRUE, DrugFacts, << >>)
    /\ doc.hasData
    /\ ~FindProductName(doc.products).present
    /\ NamesOf(doc.actives) =
           << Elem(TRUE, TRUE, Aspirin, << >>), Elem(TRUE, TRUE, Caffeine, << >>) >>

\* C18: a document titled exactly "Drug Facts" whose data section has no
\* manufactured-product name and has the active ingredients Aspirin and
\* Caffeine, in that order, gets the title "Aspirin / Caffeine"
C18_AspirinCaffeineTitle ==
    (call.fn = "parse" /\ ret.done /\ AspirinCaffeineDoc(call.doc))
        => /\ ret.label.ok
           /\ ret.label.title = Aspirin \o << " ", "/", " " >> \o Caffeine

C18_Witness ==
    /\ call.fn = "parse"
    /\ ret.done
    /\ AspirinCaffeineDoc(call.doc)
    /\ call.doc.otherName.present
    /\ ret.label.title = Aspirin \o << " ", "/", " " >> \o Caffeine

\* C19: a returned label's title is never empty, and it is "N/A" exactly
\* when neither the product name nor the document title produced any text.
\* The code answers "None" for a title element without text.
C19_TitleNonEmptySentinel ==
    Parsed =>
        /\ ret.label.title # << >>
        /\ (ret.label.title = NA) <=> (FirstNonEmptyTitle(call.doc) = << >>)

\* form and route as stated: the product's form code, and the route code
\* of the first substance administration
StatedForm(doc) ==
    IF doc.hasData /\ FindFormCode(doc.products).present
                   /\ FindFormCode(doc.products).hasAttr
    THEN FindFormCode(doc.products).displayName ELSE NA

StatedRoute(doc) ==
    IF doc.hasData /\ doc.admins # << >> /\ Head(doc.admins).routeCode.present
                   /\ Head(doc.admins).routeCode.hasAttr
    THEN Head(doc.admins).routeCode.displayName ELSE NA

\* the route code that comes first in the data section, whichever
\* substance administration holds it
FirstRouteCodeAnywhere(doc) ==
    LET holders == {i \in DOMAIN doc.admins : doc.admins[i].routeCode.present}
    IN  IF ~doc.hasData \/ holders = {} THEN NoCoded
        ELSE doc.admins[CHOOSE i \in holders : \A j \in holders : i <= j].routeCode

AmendedRoute(doc) ==
    IF FirstRouteCodeAnywhere(doc).present /\ FirstRouteCodeAnywhere(doc).hasAttr
    THEN FirstRouteCodeAnywhere(doc).displayName ELSE NA

\* C20 as stated: without a data section form and route are "N/A";
\* otherwise form is the display name of the product's form code and route
\* that of the FIRST substance administration's route code, "N/A" when the
\* element or the attribute is missing
C20_Original ==
    Parsed =>
        /\ ret.label.form_code_display = StatedForm(call.doc)
        /\ ret.label.route_code_display = StatedRoute(call.doc)

\* C20 amended: route is the display name of the first route code that is
\* a child of any substance administration of the data section; the rest
\* as stated
C20_Amended ==
    Parsed =>
        /\ ~call.doc.hasData =>
               ret.label.form_code_display = NA /\ ret.label.route_code_display = NA
        /\ ret.label.form_code_display = StatedForm(call.doc)
        /\ ret.label.route_code_display = AmendedRoute(call.doc)

C20_Witness ==
    /\ Parsed
    /\ Len(call.doc.admins) = 2
    /\ ~call.doc.admins[1].routeCode.present
    /\ call.doc.admins[2].routeCode = Coded(TRUE, TRUE, Topical)
    /\ call.doc.products # << >>
    /\ ret.label.route_code_display = Topical
    /\ ret.label.form_code_display = Tablet

\* a str in the form str.title() gives: a letter is upper case exactly when
\* no letter comes right before it
IsTitleForm(s) ==
    \A i \in DOMAIN s :
        IsLetter(s[i]) => (IsUpperChar(s[i]) <=> (i = 1 \/ ~IsLetter(s[i - 1])))

\* C21: the active list has one entry per active-base ingredient element of
\* the data section, in document order, duplicates kept; an entry's name is
\* the substance name in title case, or "Unknown" when the ingredient has none
C21_ActiveListPerElement ==
    Parsed =>
        /\ Len(ret.label.active) = (IF call.doc.hasData THEN Len(call.doc.actives) ELSE 0)
        /\ \A i \in DOMAIN ret.label.active :
              LET source == call.doc.actives[i].name
                  name == ret.label.active[i].name
              IN  IF source.present
                  THEN IsTitleForm(name) /\ Lower(name) = Lower(source.text)
                  ELSE name = Unknown

C21_Witness ==
    /\ Parsed
    /\ Len(call.doc.actives) = 2
    /\ call.doc.actives[1] = call.doc.actives[2]
    /\ call.doc.actives[1].name.text = LowerName
    /\ ret.label.active[1].name = << "Z", "i", "n", "c", " ", "O", "x" >>
    /\ ret.label.active[2] = ret.label.active[1]

\* ---- claims about the inactive list ----

\* the names the structured block lists
StatedStructured(doc) ==
    IF ~doc.hasData THEN {}
    ELSE {Strip(doc.inactives[i].text) :
             i \in {j \in DOMAIN doc.inactives :
                      doc.inactives[j].present /\ Strip(doc.inactives[j].text) # << >>}}

\* the fragments of one comma-separated item as the claims describe them:
\* the item is split on the token " and " where it holds it, and every
\* fragment is trimmed and upper-cased
StatedItemFragments(item) ==
    LET fragments == Split(Upper(item), AndToken)
    IN  {Strip(fragments[i]) : i \in {j \in DOMAIN fragments : Strip(fragments[j]) # << >>}}

\* the members the free-text source should contribute
StatedFragments(doc) ==
    IF ~doc.hasInactiveSection \/ ParaTexts(doc.paras) = << >> THEN {}
    ELSE LET items == Split(FullText(ParaTexts(doc.paras)), << "," >>)
         IN  UNION {StatedItemFragments(items[i]) : i \in DOMAIN items}

\* an ingredient whatever its casing and the punctuation around it
Punctuation == {".", ":", ",", "(", ")", " "}
IngredientKey(name) == Upper(StripChars(name, Punctuation))

ListedIngredients(doc) ==
    {IngredientKey(n) : n \in StatedStructured(doc) \cup StatedFragments(doc)} \ {<< >>}

\* C22: the inactive list is the case-insensitive union of the two sources:
\* every ingredient listed in the structured block or in the prose, whatever
\* its casing or the punctuation around it, has exactly one entry, and the
\* list has no other entry.  The code gives "b" and "b." an entry each, and
\* "... , and c" the entry "And C" next to the entry "C".
C22_InactiveIsUnion ==
    Parsed =>
        /\ {IngredientKey(ret.label.inactive[i]) : i \in DOMAIN ret.label.inactive}
               = ListedIngredients(call.doc)
        /\ \A i, j \in DOMAIN ret.label.inactive :
              IngredientKey(ret.label.inactive[i]) = IngredientKey(ret.label.inactive[j])
                  => i = j

\* C23: in the free-text source an item holding the token " and " is split
\* on it and every non-empty trimmed upper-cased fragment is a member, so
\* that "a, b, and c" gives A, B and C; stated on documents without
\* structured inactive names, whose list shows the free-text members alone.
\* The code trims the item first and keeps "AND C".
C23_AndTokenSplit ==
    (Parsed /\ StatedStructured(call.doc) = {})
        => {ret.label.inactive[i] : i \in DOMAIN ret.label.inactive}
               = {TitleCase(f) : f \in StatedFragments(call.doc)}

\* C24: the inactive list of a label is in ascending order, has no empty
\* string, no two entries that are equal ignoring case, and only entries in
\* title-cased form
C24_InactiveListWellFormed ==
    Parsed =>
        LET l == ret.label.inactive
        IN  /\ \A i, j \in DOMAIN l : i < j => ~StrLess(l[j], l[i])
            /\ \A i \in DOMAIN l : l[i] # << >> /\ IsTitleForm(l[i])
            /\ \A i, j \in DOMAIN l : Lower(l[i]) = Lower(l[j]) => i = j

C24_Witness ==
    /\ Parsed
    /\ call.doc.inactives = << Elem(TRUE, TRUE, << " ", "C", " " >>, << >>),
                                Elem(TRUE, TRUE, Blank, << >>) >>
    /\ call.doc.paras = << ProseHeaded, ProseAnd >>
    /\ ret.label.inactive = << << "A" >>, << "B", ".", " ", "C" >>, << "C" >> >>

\* C25: on well-formed markup no missing section, element, attribute or
\* name text makes the parser fail; it always returns a label.  The code
\* returns None when a name element of an ingredient has no text.
C25_AbsenceNeverFails ==
    (call.fn = "parse" /\ ret.done) => ret.label.ok

\* C26: parsing is deterministic and stateless: whenever the same markup
\* was parsed twice, with or without other parses in between and in either
\* order, the two results are identical, ingredient lists included
C26_ParseDeterministic ==
    call.fn = "reparse" =>
        \A i, j \in DOMAIN ret.results :
            call.docs[ret.results[i].doc] = call.docs[ret.results[j].doc]
                => ret.results[i].label = ret.results[j].label

C26_Witness ==
    /\ call.fn = "reparse"
    /\ Len(ret.results) = 3
    /\ call.docs[1] # call.docs[2]
    /\ ret.results[1].doc = 1
    /\ ret.results[2].doc = 2
    /\ ret.results[3].doc = 1
    /\ ret.results[1].label.ok
    /\ Len(ret.results[1].label.inactive) = 4
    /\ ret.results[3].label = ret.results[1].label
    /\ ret.results[2].label # ret.results[1].label

\* ---- claims about the callers of the generator ----

\* how often a value occurs in a list
Occurrences(v, list) == Cardinality({i \in DOMAIN list : list[i] = v})

\* C27: whatever the search came to (matches, no candidates, failure),
\* search_with_excipients returns a dictionary in which every value the
\* generator yielded is in exactly one of the two lists, in results_with
\* exactly when an inactive ingredient and an excipient keyword contain one
\* another, and whose total is total_free + total_with.  The code raises on
\* the None that the generator yields for a failed or empty search.
C27_ServiceBuckets ==
    (call.fn = "excipients" /\ ret.done) =>
        /\ ret.outcome = "dict"
        /\ ret.hasTotals
        /\ ret.total = ret.total_free + ret.total_with
        /\ \A i \in DOMAIN out :
              /\ Occurrences(out[i], ret.results_free)
                     + Occurrences(out[i], ret.results_with) = 1
              /\ out[i].label =>
                    (Occurrences(out[i], ret.results_with) = 1
                        <=> (call.excipients # << >>
                             /\ \E e \in Range(call.excipients) :
                                \E ing \in Range(call.labels[out[i].idx].inactive) :
                                   \/ Contains(Lower(ing), Lower(e))
                                   \/ Contains(Lower(e), Lower(ing))))

\* the lines of a stream of the given type
LinesOf(type) == {k \in DOMAIN ret.stream : ret.stream[k].type = type}

\* the stream is "init", one "result" per yielded label in yield order with
\* totals that add up, and then the given last line
StreamShape(last) ==
    LET labels == LabelsIn(out)
    IN  /\ Len(ret.stream) = Len(labels) + 2
        /\ ret.stream[1].type = "init"
        /\ \A k \in DOMAIN labels :
              /\ ret.stream[k + 1].type = "result"
              /\ ret.stream[k + 1].idx = labels[k].idx
              /\ ret.stream[k + 1].total
                     = ret.stream[k + 1].total_free + ret.stream[k + 1].total_with
              /\ ret.stream[k + 1].total = k
        /\ ret.stream[Len(ret.stream)].type = last

StreamClosed == call.fn = "stream" /\ ret # NoReturn /\ ret.done

MatchingLabels ==
    IF world.search = "ok" /\ world.hasData
    THEN ExpectedUpTo(world.data, Len(world.data))
    ELSE << >>

\* C29: when the 'search' command has ended, the number of results printed
\* is the number of matching labels, and when there is none (the initial
\* search failed or gave no candidates, or no candidate passed) the "No
\* results matched ..." line was printed and the command did not end in the
\* unexpected-error exit
C29_CliCountsMatches ==
    (call.fn = "cli" /\ ret.done) =>
        /\ ret.printed = Len(MatchingLabels)
        /\ MatchingLabels = << >> =>
              /\ ret.printed = 0
              /\ ret.no_match
              /\ ret.exit # "unexpected"

\* the candidate the head of the for loop is about to take
AtLoopHead(i) ==
    /\ pc \in {"loop", "yielded"}
    /\ i = (IF pc = "yielded" THEN idx + 1 ELSE idx)
    /\ i \in DOMAIN data

\* C30: a candidate without document identifier is never fetched, parsed
\* or evaluated; the step of the generator that takes it changes neither
\* the match count nor the values produced and leaves the loop at the next
\* candidate; and when the loop has run past the last candidate every
\* candidate that has an identifier was fetched, those after it included.
C30_NoSetIdSkipped ==
    /\ [](\A i \in DOMAIN data :
             ~HasSetId(data[i]) =>
                 ~Did("fetch", i) /\ ~Did("parse", i) /\ ~Did("eval", i))
    /\ [](Exhausted => \A j \in DOMAIN data : HasSetId(data[j]) => Did("fetch", j))
    /\ [][\A i \in DOMAIN data :
             (AtLoopHead(i) /\ ~HasSetId(data[i]) /\ << pc, idx >>' # << pc, idx >>) =>
                 /\ count' = count
                 /\ out' = out
                 /\ log' = log
                 /\ pc' = "loop"
                 /\ idx' = i + 1]_vars

\* the first of two candidates had no identifier, the second was yielded
C30_Witness ==
    /\ world.search = "ok"
    /\ data = << "NoSetId", "Match" >>
    /\ Exhausted
    /\ out = << Label(2) >>
    /\ count = 1
    /\ ~Did("fetch", 1)


====
